---- MODULE Spec2Model ----
(***************************************************************************)
(* Verification model of the n2t-rs chip simulation engine.                *)
(*                                                                         *)
(* Spec        one clocked built-in (DFF, Bit, Register, PC, RAM8, RAM64,  *)
(*             RAM512, RAM16K, Screen) driven through its pins, eval,      *)
(*             reset and the two phase hooks tick / tock.  The driver      *)
(*             alternates the hooks as the rising and the falling edge of  *)
(*             one clock (builtins/sequential/mod.rs), and writes input    *)
(*             pins only.                                                  *)
(* SpecPair    a Screen and a RAM16K driven in lock step with the same     *)
(*             inputs.                                                     *)
(* SpecHarness a ChipTest (test/chiptst.rs) with its own Clock and a       *)
(*             clocked chip under test, executing instructions one by one. *)
(* SpecChip    a composite Chip (chip/chip.rs) whose Not parts are wired   *)
(*             to its pins, then evaluated.                                *)
(* SpecComb    one combinational built-in (Not, Or, Mux, DMux, HalfAdder,  *)
(*             FullAdder, Not16, Add16, ALU, ROM32K) driven through its    *)
(*             input pins and eval.                                        *)
(* The other specifications are variations of these: they are introduced   *)
(* where their actions are defined.                                        *)
(*                                                                         *)
(* Words are 16 bits wide in the program.  The model keeps the width and   *)
(* draws the data words from a small window {0..MaxVal, 0xFFFF}; the       *)
(* address width of the memories is scaled down to AddrBits.               *)
(***************************************************************************)
EXTENDS Integers, Sequences, FiniteSets, TLC

\* ------------------------------------------------------------------ bounds
MaxVal == 1        \* data words driven on 16-bit inputs: 0..MaxVal and 0xFFFF
AddrBits == 1      \* address width of the modelled memories (k in RAMk)
MaxTicks == 6      \* the harness clock stops being ticked at this count
MaxParts == 2      \* parts wired into the composite chip
MaxEdges == 2      \* listener connections made in the signal layer
MaxLines == 2      \* output instructions a harness run executes

\* --------------------------------------------------------- program constants
HIGH == 1
LOW == 0

Pow2(n) == 2 ^ n
WordMod == Pow2(16)
TopWord == WordMod - 1

\* ------------------------------------------------------- signal layer (Bus)
\* Bus::set_bus_voltage on a bus of width w without listeners: only the low
\* w bits of the written word are stored.
BusStore(w, voltage) == voltage % Pow2(w)

\* Bus::pull(voltage, None) : bit 0 of the state is replaced.
BusPull(word, voltage) == (word - (word % 2)) + voltage

\* Bus::voltage(None) : bit 0 of the state.
BusBit0(word) == word % 2

\* --------------------------------------------------- Memory (memory.rs)
MemSize == Pow2(AddrBits)

\* Memory::new gives [a \in 0 .. (MemSize - 1) |-> 0]
MemoryGetWrap(data, address) == data[address % MemSize]

MemoryGet(data, address) ==
    IF address >= MemSize THEN TopWord ELSE data[address]

MemorySetAll(data, address, value) ==
    IF address < MemSize
    THEN [a \in DOMAIN data |-> value % WordMod]
    ELSE data

MemorySet(data, address, value) ==
    IF address < MemSize
    THEN [data EXCEPT ![address] = value % WordMod]
    ELSE data

\* op & 0b1..1 (k ones)
AddrMask(address) == address % Pow2(AddrBits)

\* ------------------------------------------------------------ clocked chips
ClockedKinds ==
    {"DFF", "Bit", "Register", "PC", "RAM8", "RAM64", "RAM512", "RAM16K", "Screen"}
RamKinds == {"RAM8", "RAM64", "RAM512", "RAM16K", "Screen"}

InputPins(k) ==
    CASE k = "DFF" -> {"in"}
      [] k \in {"Bit", "Register"} -> {"in", "load"}
      [] k = "PC" -> {"in", "reset", "load", "inc"}
      [] k \in {"Not", "Not16"} -> {"in"}
      [] k \in {"Or", "HalfAdder", "Add16"} -> {"a", "b"}
      [] k = "Mux" -> {"a", "b", "sel"}
      [] k = "DMux" -> {"in", "sel"}
      [] k = "FullAdder" -> {"a", "b", "c"}
      [] k = "ALU" -> {"x", "y", "zx", "nx", "zy", "ny", "f", "no"}
      [] k = "ROM32K" -> {"address"}
      [] OTHER -> {"in", "load", "address"}

PinNames(k) ==
    InputPins(k) \cup
        CASE k = "DFF" -> {"out", "t"}
          [] k = "DMux" -> {"a", "b"}
          [] k \in {"HalfAdder", "FullAdder"} -> {"sum", "carry"}
          [] k = "ALU" -> {"out", "zr", "ng"}
          [] OTHER -> {"out"}

PinWidth(k, p) ==
    CASE p \in {"load", "reset", "inc", "t", "sel",
                "zx", "nx", "zy", "ny", "f", "no", "zr", "ng"} -> 1
      [] p = "address" -> AddrBits
      [] OTHER -> IF k \in {"DFF", "Bit", "Not", "Or", "Mux", "DMux",
                            "HalfAdder", "FullAdder"}
                 THEN 1 ELSE 16

\* XxxChip::new : every pin LOW, state cleared.
BuiltinNew(k) ==
    [kind |-> k,
     pins |-> [p \in PinNames(k) |-> 0],
     st |-> [stored_value |-> LOW, bit |-> LOW, bits |-> 0,
             memory |-> IF k \in RamKinds \cup {"ROM32K"} THEN [a \in 0 .. (MemSize - 1) |-> 0] ELSE <<>>,
             next_data |-> 0, current_address |-> 0]]

\* get_pin(name).borrow_mut().set_bus_voltage(value)
PinSet(c, p, value) ==
    [c EXCEPT !.pins[p] = BusStore(PinWidth(c.kind, p), value)]

SetOut(c, value) ==
    [c EXCEPT !.pins["out"] = BusStore(PinWidth(c.kind, "out"), value)]

PullOut(c, voltage) ==
    [c EXCEPT !.pins["out"] = BusPull(c.pins["out"], voltage)]

\* ---- DFF
DffEval(c) == c

DffReset(c) == PullOut([c EXCEPT !.st.stored_value = LOW], LOW)

DffTickEager(c) ==
    LET input_value == BusBit0(c.pins["in"])
    IN [c EXCEPT !.st.stored_value = input_value,
                 !.pins["t"] = BusPull(c.pins["t"], input_value),
                 !.pins["out"] = BusPull(c.pins["out"], input_value)]

DffTick(c) ==
    LET input_value == BusBit0(c.pins["in"])
    IN [c EXCEPT !.st.stored_value = input_value,
                 !.pins["t"] = BusPull(c.pins["t"], input_value)]

DffTockFromIn(c) == PullOut(c, BusBit0(c.pins["in"]))

DffTock(c) == PullOut(c, c.st.stored_value)

\* ---- Bit
BitEval(c) == PullOut(c, c.st.bit)

BitReset(c) == PullOut([c EXCEPT !.st.bit = LOW], LOW)

BitTick(c) ==
    IF BusBit0(c.pins["load"]) = HIGH
    THEN [c EXCEPT !.st.bit = BusBit0(c.pins["in"])]
    ELSE c

BitTock(c) == PullOut(c, c.st.bit)

\* ---- Register
RegisterEval(c) == SetOut(c, c.st.bits)

RegisterReset(c) == SetOut([c EXCEPT !.st.bits = 0], 0)

RegisterTickAlways(c) ==
    [c EXCEPT !.st.bits = c.pins["in"] % WordMod]

RegisterTick(c) ==
    IF BusBit0(c.pins["load"]) = HIGH
    THEN [c EXCEPT !.st.bits = c.pins["in"] % WordMod]
    ELSE c

RegisterTock(c) == SetOut(c, c.st.bits)

\* ---- PC
PcEval(c) == SetOut(c, c.st.bits)

PcReset(c) == SetOut([c EXCEPT !.st.bits = 0], 0)

PcTickLoadFirst(c) ==
    LET reset == BusBit0(c.pins["reset"])
        load == BusBit0(c.pins["load"])
        inc == BusBit0(c.pins["inc"])
    IN IF load = HIGH THEN [c EXCEPT !.st.bits = c.pins["in"] % WordMod]
       ELSE IF reset = HIGH THEN [c EXCEPT !.st.bits = 0]
       ELSE IF inc = HIGH THEN [c EXCEPT !.st.bits = ((c.st.bits + 1) % WordMod) % WordMod]
       ELSE c

PcTick(c) ==
    LET reset == BusBit0(c.pins["reset"])
        load == BusBit0(c.pins["load"])
        inc == BusBit0(c.pins["inc"])
    IN IF reset = HIGH THEN [c EXCEPT !.st.bits = 0]
       ELSE IF load = HIGH THEN [c EXCEPT !.st.bits = c.pins["in"] % WordMod]
       ELSE IF inc = HIGH THEN [c EXCEPT !.st.bits = ((c.st.bits + 1) % WordMod) % WordMod]
       ELSE c

PcTock(c) == SetOut(c, c.st.bits)

\* ---- RAM8 (ram16k.rs repeats this eval; ram64.rs, ram512.rs, ram16k.rs and
\* screen.rs repeat this reset, tick and tock, statement for statement)
Ram8Eval(c) ==
    LET address == AddrMask(c.pins["address"])
        mem == IF BusBit0(c.pins["load"]) = HIGH
               THEN MemorySet(c.st.memory, address, c.pins["in"])
               ELSE c.st.memory
    IN SetOut([c EXCEPT !.st.memory = mem], MemoryGet(mem, address))

Ram8Reset(c) ==
    SetOut([c EXCEPT !.st.memory = [a \in 0 .. (MemSize - 1) |-> 0], !.st.next_data = 0,
                     !.st.current_address = 0], 0)

Ram8TickPublishes(c) ==
    LET address == AddrMask(c.pins["address"])
        mem == IF BusBit0(c.pins["load"]) = HIGH
               THEN MemorySet(c.st.memory, address, c.pins["in"])
               ELSE c.st.memory
    IN [c EXCEPT !.st.current_address = address,
                 !.st.next_data = IF BusBit0(c.pins["load"]) = HIGH
                                  THEN c.pins["in"] ELSE c.st.next_data,
                 !.st.memory = mem,
                 !.pins["out"] = MemoryGet(mem, address)]

Ram8Tick(c) ==
    LET address == AddrMask(c.pins["address"])
    IN IF BusBit0(c.pins["load"]) = HIGH
       THEN [c EXCEPT !.st.current_address = address,
                      !.st.next_data = c.pins["in"],
                      !.st.memory = MemorySet(c.st.memory, address, c.pins["in"])]
       ELSE [c EXCEPT !.st.current_address = address]

Ram8Tock(c) == SetOut(c, MemoryGet(c.st.memory, c.st.current_address))

\* ---- RAM64 (ram512.rs and screen.rs repeat this eval)
Ram64Eval(c) ==
    SetOut(c, MemoryGet(c.st.memory, AddrMask(c.pins["address"])))

\* ------------------------------------------------------ combinational chips
\* Every eval reads its inputs (voltage(None) is bit 0, bus_voltage() the
\* word) and writes its outputs (pull(v, None) replaces bit 0,
\* set_bus_voltage the word); the pins have no listeners.

\* ---- Not, Or, Mux, DMux
NotChipEvalToggle(c) == PullOut(c, 1 - BusBit0(c.pins["out"]))

NotChipEval(c) ==
    PullOut(c, IF BusBit0(c.pins["in"]) = HIGH THEN LOW ELSE HIGH)

OrEval(c) ==
    PullOut(c, IF BusBit0(c.pins["a"]) = HIGH \/ BusBit0(c.pins["b"]) = HIGH
               THEN HIGH ELSE LOW)

MuxEval(c) ==
    PullOut(c, IF BusBit0(c.pins["sel"]) = LOW
               THEN BusBit0(c.pins["a"]) ELSE BusBit0(c.pins["b"]))

DMuxEval(c) ==
    LET inn == BusBit0(c.pins["in"])
        routed == IF inn = HIGH THEN HIGH ELSE LOW
        ab == IF BusBit0(c.pins["sel"]) = LOW
              THEN <<routed, LOW>> ELSE <<LOW, routed>>
    IN [c EXCEPT !.pins["a"] = BusPull(@, ab[1]),
                 !.pins["b"] = BusPull(@, ab[2])]

\* ---- HalfAdder, FullAdder
HalfAdderEval(c) ==
    LET a == BusBit0(c.pins["a"])
        b == BusBit0(c.pins["b"])
        sum == IF (a = HIGH /\ b = LOW) \/ (a = LOW /\ b = HIGH)
               THEN HIGH ELSE LOW
        carry == IF a = HIGH /\ b = HIGH THEN HIGH ELSE LOW
    IN [c EXCEPT !.pins["sum"] = BusPull(@, sum),
                 !.pins["carry"] = BusPull(@, carry)]

\* FullAdderChip::half_adder : the pair (sum, carry)
half_adderOrCarry(a, b) ==
    <<IF (a = HIGH /\ b = LOW) \/ (a = LOW /\ b = HIGH) THEN HIGH ELSE LOW,
      IF a = HIGH \/ b = HIGH THEN HIGH ELSE LOW>>

half_adder(a, b) ==
    <<IF (a = HIGH /\ b = LOW) \/ (a = LOW /\ b = HIGH) THEN HIGH ELSE LOW,
      IF a = HIGH /\ b = HIGH THEN HIGH ELSE LOW>>

FullAdderEval(c) ==
    LET s_ca == half_adder(BusBit0(c.pins["a"]), BusBit0(c.pins["b"]))
        sum_cb == half_adder(s_ca[1], BusBit0(c.pins["c"]))
        carry == IF s_ca[2] = HIGH \/ sum_cb[2] = HIGH THEN HIGH ELSE LOW
    IN [c EXCEPT !.pins["sum"] = BusPull(@, sum_cb[1]),
                 !.pins["carry"] = BusPull(@, carry)]

\* ---- Not16, Add16
\* !input on a u16
Not16Eval(c) == SetOut(c, TopWord - c.pins["in"])

\* a.wrapping_add(b) & 0xffff
Add16Eval(c) == SetOut(c, (c.pins["a"] + c.pins["b"]) % WordMod)

\* ---- ALU
\* x & y on 16-bit words
RECURSIVE BitAnd(_, _)
BitAnd(x, y) ==
    IF x = 0 \/ y = 0 THEN 0
    ELSE (x % 2) * (y % 2) + 2 * BitAnd(x \div 2, y \div 2)

\* AluChip::alu_operation : [result, flags]
AluOperationFlagsEarly(op, x, y) ==
    LET x1 == IF BitAnd(op, 32) # 0 THEN 0 ELSE x
        x2 == IF BitAnd(op, 16) # 0 THEN BitAnd(TopWord - x1, TopWord) ELSE x1
        y1 == IF BitAnd(op, 8) # 0 THEN 0 ELSE y
        y2 == IF BitAnd(op, 4) # 0 THEN BitAnd(TopWord - y1, TopWord) ELSE y1
        r1 == IF BitAnd(op, 2) # 0
              THEN BitAnd((x2 + y2) % WordMod, TopWord)
              ELSE BitAnd(x2, y2)
        result == IF BitAnd(op, 1) # 0 THEN BitAnd(TopWord - r1, TopWord) ELSE r1
    IN [result |-> result,
        flags |-> IF r1 = 0 THEN "Zero"
                  ELSE IF BitAnd(r1, 32768) # 0 THEN "Negative"
                  ELSE "Positive"]

AluOperation(op, x, y) ==
    LET x1 == IF BitAnd(op, 32) # 0 THEN 0 ELSE x
        x2 == IF BitAnd(op, 16) # 0 THEN BitAnd(TopWord - x1, TopWord) ELSE x1
        y1 == IF BitAnd(op, 8) # 0 THEN 0 ELSE y
        y2 == IF BitAnd(op, 4) # 0 THEN BitAnd(TopWord - y1, TopWord) ELSE y1
        r1 == IF BitAnd(op, 2) # 0
              THEN BitAnd((x2 + y2) % WordMod, TopWord)
              ELSE BitAnd(x2, y2)
        result == IF BitAnd(op, 1) # 0 THEN BitAnd(TopWord - r1, TopWord) ELSE r1
    IN [result |-> result,
        flags |-> IF result = 0 THEN "Zero"
                  ELSE IF BitAnd(result, 32768) # 0 THEN "Negative"
                  ELSE "Positive"]

AluEval(c) ==
    LET bit(p) == IF BusBit0(c.pins[p]) = HIGH THEN 1 ELSE 0
        op == bit("zx") * 32 + bit("nx") * 16 + bit("zy") * 8
              + bit("ny") * 4 + bit("f") * 2 + bit("no")
        r == AluOperation(op, c.pins["x"], c.pins["y"])
    IN [SetOut(c, r.result) EXCEPT
            !.pins["zr"] = BusPull(@, IF r.flags = "Zero" THEN HIGH ELSE LOW),
            !.pins["ng"] = BusPull(@, IF r.flags = "Negative" THEN HIGH ELSE LOW)]

\* ---- ROM32K (computer/rom32k.rs), its 15 address bits scaled to AddrBits
\* load_program : word i of the program goes to address i, below the size
RECURSIVE Rom32kLoadProgram(_, _, _)
Rom32kLoadProgram(c, program, i) ==
    IF i > Len(program) THEN c
    ELSE Rom32kLoadProgram(
             IF i - 1 < MemSize
             THEN [c EXCEPT !.st.memory = MemorySet(@, i - 1, program[i])]
             ELSE c,
             program, i + 1)

Rom32kEvalNext(c) ==
    SetOut(c, MemoryGet(c.st.memory, AddrMask(c.pins["address"] + 1)))

Rom32kEval(c) ==
    SetOut(c, MemoryGet(c.st.memory, AddrMask(c.pins["address"])))

\* ---- dispatch through the ChipInterface / ClockedChip traits
InterfaceEval(c) ==
    CASE c.kind = "DFF" -> DffEval(c)
      [] c.kind = "Bit" -> BitEval(c)
      [] c.kind = "Register" -> RegisterEval(c)
      [] c.kind = "PC" -> PcEval(c)
      [] c.kind = "RAM8" -> Ram8Eval(c)
      [] c.kind = "RAM64" -> Ram64Eval(c)
      [] c.kind = "RAM512" -> Ram64Eval(c)
      [] c.kind = "RAM16K" -> Ram8Eval(c)
      [] c.kind = "Screen" -> Ram64Eval(c)
      [] c.kind = "Not" -> NotChipEval(c)
      [] c.kind = "Or" -> OrEval(c)
      [] c.kind = "Mux" -> MuxEval(c)
      [] c.kind = "DMux" -> DMuxEval(c)
      [] c.kind = "HalfAdder" -> HalfAdderEval(c)
      [] c.kind = "FullAdder" -> FullAdderEval(c)
      [] c.kind = "Not16" -> Not16Eval(c)
      [] c.kind = "Add16" -> Add16Eval(c)
      [] c.kind = "ALU" -> AluEval(c)
      [] c.kind = "ROM32K" -> Rom32kEval(c)

InterfaceReset(c) ==
    CASE c.kind = "DFF" -> DffReset(c)
      [] c.kind = "Bit" -> BitReset(c)
      [] c.kind = "Register" -> RegisterReset(c)
      [] c.kind = "PC" -> PcReset(c)
      [] c.kind = "RAM8" -> Ram8Reset(c)
      [] c.kind = "RAM64" -> Ram8Reset(c)
      [] c.kind = "RAM512" -> Ram8Reset(c)
      [] c.kind = "RAM16K" -> Ram8Reset(c)
      [] c.kind = "Screen" -> Ram8Reset(c)

ClockedTick(c) ==
    CASE c.kind = "DFF" -> DffTick(c)
      [] c.kind = "Bit" -> BitTick(c)
      [] c.kind = "Register" -> RegisterTick(c)
      [] c.kind = "PC" -> PcTick(c)
      [] c.kind = "RAM8" -> Ram8Tick(c)
      [] c.kind = "RAM64" -> Ram8Tick(c)
      [] c.kind = "RAM512" -> Ram8Tick(c)
      [] c.kind = "RAM16K" -> Ram8Tick(c)
      [] c.kind = "Screen" -> Ram8Tick(c)

ClockedTock(c) ==
    CASE c.kind = "DFF" -> DffTock(c)
      [] c.kind = "Bit" -> BitTock(c)
      [] c.kind = "Register" -> RegisterTock(c)
      [] c.kind = "PC" -> PcTock(c)
      [] c.kind = "RAM8" -> Ram8Tock(c)
      [] c.kind = "RAM64" -> Ram8Tock(c)
      [] c.kind = "RAM512" -> Ram8Tock(c)
      [] c.kind = "RAM16K" -> Ram8Tock(c)
      [] c.kind = "Screen" -> Ram8Tock(c)

\* The internal state a tock publishes (the value each tock writes to out).
Published(c) ==
    CASE c.kind = "DFF" -> c.st.stored_value
      [] c.kind = "Bit" -> c.st.bit
      [] c.kind \in {"Register", "PC"} -> c.st.bits
      [] OTHER -> MemoryGet(c.st.memory, c.st.current_address)

\* ------------------------------------------------------------------- state
VARIABLES
    chip,      \* the built-in under test: [kind, pins, st]
    phase,     \* level of the clock edge last delivered to the chip
    op,        \* the operation performed last
    tk,        \* the pins and the state as they were just before the last tick
    dirty,     \* reset() was called since the last tick
    peer,      \* SpecPair: the RAM16K driven along with the Screen
    clock,     \* SpecHarness: ChipTest.clock, [level, ticks]
    nticks,    \* SpecHarness: calls of Clock::tick since the clock was new or reset
    ran,       \* SpecHarness: the last instructions executed, oldest first
    nodes,     \* SpecChip: the buses, by handle: [name, width, word, conns]
    host,      \* SpecChip: the composite Chip
    evalLog,   \* SpecChip: the parts whose eval the last Chip::eval called, in call order
    call       \* the last call on a signal node or of wire(), [f, n, l, v, c]

harnessVars == <<clock, nticks, ran>>
compositeVars == <<nodes, host, evalLog, call>>
vars == <<chip, phase, op, tk, dirty, peer, clock, nticks, ran, nodes, host, evalLog, call>>

\* words a driver writes on pin p of a chip of kind k
InVals(k, p) ==
    IF p = "address" THEN 0 .. MemSize
    ELSE IF PinWidth(k, p) = 1 THEN {LOW, HIGH}
    ELSE (0 .. MaxVal) \cup {TopWord}
         \cup (IF k \in {"ALU", "Add16", "Not16"} THEN {32767, 32768} ELSE {})

\* what the two-step properties of DFF, Bit, Register and PC refer to
Snapshot(c) ==
    IF c.kind \notin {"DFF", "Bit", "Register", "PC"} THEN [kind |-> c.kind]
    ELSE [kind |-> c.kind, pins |-> c.pins, stored |-> Published(c)]

NoPeer == [kind |-> "none"]

\* ------------------------------------------------------- Clock (clock.rs)
\* The broadcast sender is left out: no receiver is ever read. Clock::new and
\* Clock::reset give [level |-> LOW, ticks |-> 0].
\* Clock::tick flips the level and counts the call.
NoCall == [f |-> "none", n |-> 0, l |-> 0, v |-> 0, c |-> <<>>]

\* the state after construction: the chip under test c, the chip p next to
\* it, the signal nodes ns and the composite h
InitWith(c, p, ns, h) ==
    /\ chip = c
    /\ peer = p
    /\ phase = LOW
    /\ op = "new"
    /\ tk = Snapshot(c)
    /\ dirty = FALSE
    /\ clock = [level |-> LOW, ticks |-> 0]
    /\ nticks = 0
    /\ ran = <<>>
    /\ nodes = ns
    /\ host = h
    /\ evalLog = <<>>
    /\ call = NoCall

SetPin ==
    \E p \in InputPins(chip.kind) : \E v \in InVals(chip.kind, p) :
        /\ chip' = PinSet(chip, p, v)
        /\ op' = "set"
        /\ UNCHANGED <<phase, tk, dirty, peer, harnessVars, compositeVars>>

Eval ==
    /\ chip' = InterfaceEval(chip)
    /\ op' = "eval"
    /\ UNCHANGED <<phase, tk, dirty, peer, harnessVars, compositeVars>>

Reset ==
    /\ chip' = InterfaceReset(chip)
    /\ op' = "reset"
    /\ dirty' = (chip.kind \notin RamKinds)
    /\ UNCHANGED <<phase, tk, peer, harnessVars, compositeVars>>

\* the PC counts without bound: the counting tick is taken inside the window
Tick ==
    /\ phase = LOW
    /\ IF chip.kind # "PC" THEN TRUE
       ELSE IF BusBit0(chip.pins["reset"]) = HIGH THEN TRUE
       ELSE IF BusBit0(chip.pins["load"]) = HIGH THEN TRUE
       ELSE IF BusBit0(chip.pins["inc"]) = LOW THEN TRUE
       ELSE chip.st.bits < MaxVal \/ chip.st.bits = TopWord
    /\ chip' = ClockedTick(chip)
    /\ phase' = HIGH
    /\ op' = "tick"
    /\ tk' = Snapshot(chip)
    /\ dirty' = FALSE
    /\ UNCHANGED <<peer, harnessVars, compositeVars>>

Tock ==
    /\ phase = HIGH
    /\ chip' = ClockedTock(chip)
    /\ phase' = LOW
    /\ op' = "tock"
    /\ UNCHANGED <<tk, dirty, peer, harnessVars, compositeVars>>

Spec ==
    /\ \E k \in ClockedKinds : InitWith(BuiltinNew(k), NoPeer, <<>>, [name |-> "none"])
    /\ [][SetPin \/ Eval \/ Reset \/ Tick \/ Tock]_vars

\* ------------------------------------- SpecComb: one combinational built-in
\* A driver writes an input pin; eval() of the chip. tk keeps the chip and
\* the operation of the state the last eval started from, until the next
\* write.
GSet ==
    \E p \in InputPins(chip.kind) : \E v \in InVals(chip.kind, p) :
        /\ chip' = PinSet(chip, p, v)
        /\ tk' = Snapshot(chip)
        /\ op' = "set"
        /\ UNCHANGED <<phase, dirty, peer, harnessVars, compositeVars>>

GEval ==
    /\ chip' = InterfaceEval(chip)
    /\ tk' = [chip |-> chip, op |-> op]
    /\ op' = "eval"
    /\ UNCHANGED <<phase, dirty, peer, harnessVars, compositeVars>>

\* load_program(program) on the ROM32K, once, on the memory as built
GLoad ==
    /\ chip.kind = "ROM32K"
    /\ call = NoCall
    /\ \E program \in UNION {[1 .. n -> (0 .. MaxVal) \cup {TopWord}] :
                                n \in 0 .. (MemSize + 1)} :
          /\ chip' = Rom32kLoadProgram(chip, program, 1)
          /\ call' = [f |-> "load_program", n |-> 0, l |-> 0, v |-> 0, c |-> program]
    /\ tk' = Snapshot(chip)
    /\ op' = "load_program"
    /\ UNCHANGED <<phase, dirty, peer, harnessVars, nodes, host, evalLog>>

SpecComb ==
    /\ \E k \in {"Not", "Or", "Mux", "DMux", "HalfAdder", "FullAdder",
                  "Not16", "Add16", "ALU", "ROM32K"} :
           InitWith(BuiltinNew(k), NoPeer, <<>>, [name |-> "none"])
    /\ [][GSet \/ GEval \/ GLoad]_vars

\* ------------------------------------------- SpecMemory: a Memory by itself
\* Memory::new(size), its size scaled to MemSize, read and written by a
\* caller at addresses below, at and beyond the size. call is the call made
\* last, with the word a get returned in v, and tk the call before it.
MGet ==
    /\ \E address \in 0 .. (2 * MemSize) :
          call' = [f |-> "get", n |-> address, l |-> 0,
                   v |-> MemoryGet(chip.data, address), c |-> <<>>]
    /\ tk' = call
    /\ op' = "get"
    /\ UNCHANGED <<chip, phase, dirty, peer, harnessVars, nodes, host, evalLog>>

MSet ==
    /\ \E address \in 0 .. (2 * MemSize), value \in (0 .. MaxVal) \cup {TopWord} :
          /\ chip' = [chip EXCEPT !.data = MemorySet(@, address, value)]
          /\ call' = [f |-> "set", n |-> address, l |-> 0, v |-> value, c |-> <<>>]
    /\ tk' = call
    /\ op' = "set"
    /\ UNCHANGED <<phase, dirty, peer, harnessVars, nodes, host, evalLog>>

SpecMemory ==
    /\ InitWith([kind |-> "Memory", data |-> [a \in 0 .. (MemSize - 1) |-> 0]], NoPeer, <<>>, [name |-> "none"])
    /\ [][MGet \/ MSet]_vars

\* ---------------------------------------------- SpecPair: Screen next to RAM
PairSet ==
    \E p \in InputPins("Screen") : \E v \in InVals("Screen", p) :
        /\ chip' = PinSet(chip, p, v)
        /\ peer' = PinSet(peer, p, v)
        /\ op' = "set"
        /\ UNCHANGED <<phase, tk, dirty, harnessVars, compositeVars>>

PairEval ==
    /\ chip' = InterfaceEval(chip)
    /\ peer' = InterfaceEval(peer)
    /\ op' = "eval"
    /\ UNCHANGED <<phase, tk, dirty, harnessVars, compositeVars>>

PairReset ==
    /\ chip' = InterfaceReset(chip)
    /\ peer' = InterfaceReset(peer)
    /\ op' = "reset"
    /\ UNCHANGED <<phase, tk, dirty, harnessVars, compositeVars>>

PairTick ==
    /\ phase = LOW
    /\ chip' = ClockedTick(chip)
    /\ peer' = ClockedTick(peer)
    /\ phase' = HIGH
    /\ op' = "tick"
    /\ UNCHANGED <<tk, dirty, harnessVars, compositeVars>>

PairTock ==
    /\ phase = HIGH
    /\ chip' = ClockedTock(chip)
    /\ peer' = ClockedTock(peer)
    /\ phase' = LOW
    /\ op' = "tock"
    /\ UNCHANGED <<tk, dirty, harnessVars, compositeVars>>

SpecPair ==
    /\ InitWith(BuiltinNew("Screen"), BuiltinNew("RAM16K"), <<>>, [name |-> "none"])
    /\ [][PairSet \/ PairEval \/ PairReset \/ PairTick \/ PairTock]_vars

\* ------------------------------------------- SpecHarness: ChipTest (chiptst.rs)
\* the last three instructions executed; they are not kept where the
\* harness has an output list and a log (SpecOutput)
Ran(instr) ==
    IF host.name = "ChipTest" THEN ran
    ELSE IF Len(ran) < 3 THEN Append(ran, instr) ELSE Append(Tail(ran), instr)

\* TestSetInstruction::execute; the instruction carries a pin name of the
\* chip, an absent one or a memory reference, and a value of the pin's width
TestSet ==
    \E p \in PinNames(chip.kind) \cup {"nopin", "RAM16K"} :
      \E v \in IF p \in PinNames(chip.kind) /\ PinWidth(chip.kind, p) = 16
               THEN (0 .. MaxVal) \cup {TopWord}
               ELSE {LOW, HIGH} :
        /\ chip' = IF p \in {"RAM16K"} THEN chip
                   ELSE IF p \in PinNames(chip.kind) THEN PinSet(chip, p, v)
                   ELSE chip
        /\ ran' = Ran([i |-> "set", pin |-> p, value |-> v])
        /\ op' = "set"
        /\ UNCHANGED <<phase, tk, dirty, peer, clock, nticks, compositeVars>>

\* TestEvalInstruction::execute
TestEval ==
    /\ chip' = InterfaceEval(chip)
    /\ ran' = Ran([i |-> "eval"])
    /\ op' = "eval"
    /\ UNCHANGED <<phase, tk, dirty, peer, clock, nticks, compositeVars>>

\* TestTickInstruction::execute
TestTick ==
    /\ clock.ticks < MaxTicks
    /\ clock' = [level |-> IF clock.level = LOW THEN HIGH ELSE LOW,
                 ticks |-> clock.ticks + 1]
    /\ nticks' = nticks + 1
    /\ ran' = Ran([i |-> "tick"])
    /\ op' = "tick"
    /\ UNCHANGED <<chip, phase, tk, dirty, peer, compositeVars>>

\* TestTockInstruction::execute
TestTock ==
    /\ clock.ticks < MaxTicks
    /\ clock' = [level |-> IF clock.level = LOW THEN HIGH ELSE LOW,
                 ticks |-> clock.ticks + 1]
    /\ nticks' = nticks + 1
    /\ ran' = Ran([i |-> "tock"])
    /\ op' = "tock"
    /\ UNCHANGED <<chip, phase, tk, dirty, peer, compositeVars>>

\* Clock::reset through ChipTest::clock_mut
TestClockReset ==
    /\ clock' = [level |-> LOW, ticks |-> 0]
    /\ nticks' = 0
    /\ ran' = Ran([i |-> "clock_reset"])
    /\ op' = "clock_reset"
    /\ UNCHANGED <<chip, phase, tk, dirty, peer, compositeVars>>

SpecHarness ==
    /\ \E k \in {"DFF", "Bit", "Register"} :
          InitWith(BuiltinNew(k), NoPeer, <<>>, [name |-> "none"])
    /\ [][TestSet \/ TestEval \/ TestTick \/ TestTock \/ TestClockReset]_vars

\* ------------------------------- SpecOutput: the output list and the log
\* host is the ChipTest: [name, output_list, log_buffer]; a text is the
\* sequence of its characters. An OutputSpec is [id, len], len << >> for
\* None and <<n>> for Some(n); both styles are formatted by the same code.

\* format!("{}", n) of an unsigned number
RECURSIVE Decimal(_)
Decimal(n) ==
    IF n < 10
    THEN <<(<<"0", "1", "2", "3", "4", "5", "6", "7", "8", "9">>)[n + 1]>>
    ELSE Decimal(n \div 10) \o Decimal(n % 10)

\* the loop of TestOutputInstruction::execute from entry i on, and the
\* final newline; format!("{:width$}", value) pads the string on the right
RECURSIVE OutputLineNoBar(_, _, _, _, _)
OutputLineNoBar(output_list, i, line, c, ck) ==
    IF i > Len(output_list) THEN line \o <<"\n">>
    ELSE LET spec == output_list[i]
             value == IF spec.id = "time" THEN Decimal(ck.ticks)
                      ELSE IF spec.id \in PinNames(c.kind)
                      THEN Decimal(c.pins[spec.id])
                      ELSE <<"0">>
             formatted == IF spec.len # << >>
                          THEN value \o [j \in 1 .. (spec.len[1] - Len(value)) |-> " "]
                          ELSE <<" ">> \o value \o <<" ">>
         IN OutputLineNoBar(output_list, i + 1, line \o formatted, c, ck)

RECURSIVE OutputLine(_, _, _, _, _)
OutputLine(output_list, i, line, c, ck) ==
    IF i > Len(output_list) THEN line \o <<"\n">>
    ELSE LET spec == output_list[i]
             value == IF spec.id = "time" THEN Decimal(ck.ticks)
                      ELSE IF spec.id \in PinNames(c.kind)
                      THEN Decimal(c.pins[spec.id])
                      ELSE <<"0">>
             formatted == IF spec.len # << >>
                          THEN value \o [j \in 1 .. (spec.len[1] - Len(value)) |-> " "]
                          ELSE <<" ">> \o value \o <<" ">>
         IN OutputLine(output_list, i + 1, line \o formatted \o <<"|">>, c, ck)

\* TestOutputInstruction::execute
TestOutput ==
    /\ host.name = "ChipTest"
    /\ Cardinality({j \in DOMAIN host.log_buffer : host.log_buffer[j] = "\n"}) < MaxLines
    /\ host' = [host EXCEPT !.log_buffer =
                    @ \o OutputLine(host.output_list, 1, <<"|">>, chip, clock)]
    /\ ran' = Ran([i |-> "output"])
    /\ op' = "output"
    /\ UNCHANGED <<chip, phase, tk, dirty, peer, clock, nticks, nodes, evalLog, call>>

SpecOutput ==
    /\ \E output_list \in
            {<< >>,
             <<[id |-> "time", len |-> << >>]>>,
             <<[id |-> "in", len |-> <<3>>], [id |-> "nopin", len |-> << >>]>>,
             <<[id |-> "nopin", len |-> <<2>>], [id |-> "load", len |-> <<1>>],
               [id |-> "in", len |-> <<6>>]>>} :
          InitWith(BuiltinNew("Register"), NoPeer, <<>>,
                   [name |-> "ChipTest", output_list |-> output_list,
                    log_buffer |-> << >>])
    /\ [][TestSet \/ TestEval \/ TestTick \/ TestTock \/ TestOutput]_vars

\* ------------------------- signal nodes (pin.rs, bus.rs, subbus.rs), by handle
\* A handle stands for an Rc<RefCell<dyn Pin>>; live is "strong_count > 0";
\* held is the set of handles that are mutably borrowed up the call stack: on
\* these try_borrow_mut fails, and borrow() and borrow_mut() panic. A node
\* whose RefCell a panicking borrow hit is marked panicked: the call that
\* made it never returns.
BusNew(name, width) ==
    [type |-> "bus", name |-> name, width |-> width, word |-> 0,
     conns |-> <<>>, live |-> TRUE, parent |-> 0, start |-> 0, panicked |-> FALSE]

\* InSubBus::new / OutSubBus::new, for a range that lies within the parent
InSubBusNew(parent_bus, start, width) ==
    [type |-> "in_sub", name |-> "sub", width |-> width, word |-> 0,
     conns |-> <<>>, live |-> TRUE, parent |-> parent_bus, start |-> start,
     panicked |-> FALSE]

OutSubBusNew(parent_bus, start, width) ==
    [type |-> "out_sub", name |-> "sub", width |-> width, word |-> 0,
     conns |-> <<>>, live |-> TRUE, parent |-> parent_bus, start |-> start,
     panicked |-> FALSE]

\* ConstantPin::new for the names "true"/"1" and "false"/"0"
ConstantPinNew(name) ==
    [type |-> "const", name |-> name, width |-> 1,
     word |-> IF name = "true" THEN HIGH ELSE LOW,
     conns |-> <<>>, live |-> TRUE, parent |-> 0, start |-> 0, panicked |-> FALSE]

\* mask(bits) of subbus.rs
mask(bits) == IF bits >= 16 THEN TopWord ELSE Pow2(bits) - 1

BorrowPanic(ns, n) == [ns EXCEPT ![n].panicked = TRUE]

Panicked(ns) == \E n \in 1 .. Len(ns) : ns[n].panicked

\* Pin::bus_voltage; for a sub-bus (parent_voltage >> start) & mask(width)
RECURSIVE PinBusVoltage(_, _)
PinBusVoltage(ns, n) ==
    IF ns[n].type \in {"in_sub", "out_sub"}
    THEN (PinBusVoltage(ns, ns[n].parent) \div Pow2(ns[n].start)) % (mask(ns[n].width) + 1)
    ELSE ns[n].word

SpliceBitsClearAll(current, voltage, start, width) ==
    ((voltage % (mask(width) + 1)) * Pow2(start)) % WordMod

\* (current & !(mask(width) << start)) | ((voltage & mask(width)) << start)
SpliceBits(current, voltage, start, width) ==
    LET m == mask(width) + 1
        low == current % Pow2(start)
        high == current \div (Pow2(start) * m)
    IN (high * Pow2(start) * m + (voltage % m) * Pow2(start) + low) % WordMod

RetainAll(ns, n) == ns

\* connections.retain(|weak_pin| weak_pin.strong_count() > 0)
Retain(ns, n) ==
    [ns EXCEPT ![n].conns = SelectSeq(@, LAMBDA l : ns[l].live)]

RECURSIVE PinSetBusVoltage(_, _, _, _)
RECURSIVE SetBusVoltage(_, _, _, _)
RECURSIVE BusVoltageLoop(_, _, _, _, _)
RECURSIVE InSubBusSetBusVoltage(_, _, _, _)
RECURSIVE OutSubBusSetBusVoltage(_, _, _, _)
RECURSIVE PinPull(_, _, _, _, _)
RECURSIVE Pull(_, _, _, _, _)
RECURSIVE VoltageLoop(_, _, _, _, _, _)

\* the loop of Bus::propagate_bus_voltage and of
\* OutSubBus::propagate_to_connections
BusVoltageLoopBackward(ns, n, voltage, i, held) ==
    IF i > Len(ns[n].conns) THEN ns
    ELSE LET l == ns[n].conns[Len(ns[n].conns) + 1 - i]
             ns1 == IF l \in held THEN ns
                    ELSE PinSetBusVoltage(ns, l, voltage, held \cup {l})
         IN BusVoltageLoop(ns1, n, voltage, i + 1, held)

BusVoltageLoop(ns, n, voltage, i, held) ==
    IF i > Len(ns[n].conns) THEN ns
    ELSE LET l == ns[n].conns[i]
             ns1 == IF l \in held THEN ns
                    ELSE PinSetBusVoltage(ns, l, voltage, held \cup {l})
         IN BusVoltageLoop(ns1, n, voltage, i + 1, held)

\* Bus::propagate_bus_voltage is the loop over the listeners that retain()
\* has left
SetBusVoltageShort(ns, n, voltage, held) ==
    LET ns1 == [ns EXCEPT ![n].word = voltage % Pow2(ns[n].width - 1)]
    IN BusVoltageLoop(Retain(ns1, n), n, voltage, 1, held \cup {n})

\* Bus::set_bus_voltage, called on a mutable borrow of n
SetBusVoltage(ns, n, voltage, held) ==
    LET ns1 == [ns EXCEPT ![n].word = voltage % Pow2(ns[n].width)]
    IN BusVoltageLoop(Retain(ns1, n), n, voltage, 1, held \cup {n})

\* InSubBus::set_bus_voltage: parent_bus.borrow_mut() panics on a held parent
InSubBusSetBusVoltage(ns, n, voltage, held) ==
    LET p == ns[n].parent
    IN IF p \in held THEN BorrowPanic(ns, p)
       ELSE PinSetBusVoltage(ns, p,
                SpliceBits(PinBusVoltage(ns, p), voltage, ns[n].start, ns[n].width),
                held \cup {n, p})

\* OutSubBus::set_bus_voltage: the value the sub-bus had on entry goes to the
\* listeners (propagate_to_connections retains the live ones and writes
\* each), and only then is the parent written, when voltage differs
OutSubBusSetBusVoltage(ns, n, voltage, held) ==
    LET p == ns[n].parent
    IN IF p \in held THEN BorrowPanic(ns, p)
       ELSE LET current_subbus_value == PinBusVoltage(ns, n)
                ns1 == BusVoltageLoop(Retain(ns, n), n, current_subbus_value, 1, held \cup {n})
            IN IF voltage # current_subbus_value
               THEN PinSetBusVoltage(ns1, p,
                        SpliceBits(PinBusVoltage(ns1, p), voltage, ns[n].start, ns[n].width),
                        held \cup {n, p})
               ELSE ns1

PinSetBusVoltageOutermost(ns, n, voltage, held) ==
    CASE ns[n].type = "bus" ->
            IF held \subseteq {n} THEN SetBusVoltage(ns, n, voltage, held) ELSE ns
      [] ns[n].type = "in_sub" -> InSubBusSetBusVoltage(ns, n, voltage, held)
      [] ns[n].type = "out_sub" -> OutSubBusSetBusVoltage(ns, n, voltage, held)
      [] OTHER -> ns

\* pin.set_bus_voltage(voltage) on a dyn Pin that the caller borrowed mutably;
\* ConstantPin::set_bus_voltage does nothing
PinSetBusVoltage(ns, n, voltage, held) ==
    CASE ns[n].type = "bus" -> SetBusVoltage(ns, n, voltage, held)
      [] ns[n].type = "in_sub" -> InSubBusSetBusVoltage(ns, n, voltage, held)
      [] ns[n].type = "out_sub" -> OutSubBusSetBusVoltage(ns, n, voltage, held)
      [] OTHER -> ns

VoltageLoop(ns, n, voltage, bit, i, held) ==
    IF i > Len(ns[n].conns) THEN ns
    ELSE LET l == ns[n].conns[i]
             ns1 == IF l \in held THEN ns
                    ELSE PinPull(ns, l, voltage, bit, held \cup {l})
         IN VoltageLoop(ns1, n, voltage, bit, i + 1, held)

\* an out-of-range bit is an Err and nothing is written; else the bit is
\* replaced in the state and propagate_voltage retains the live listeners
\* and pulls the bit on each
Pull(ns, n, voltage, bit, held) ==
    IF bit >= ns[n].width THEN ns
    ELSE LET ns1 == [ns EXCEPT ![n].word =
                        @ - (((@ \div Pow2(bit)) % 2) * Pow2(bit))
                          + (voltage * Pow2(bit))]
         IN VoltageLoop(Retain(ns1, n), n, voltage, bit, 1, held \cup {n})

SubBusPullNoOffset(ns, n, voltage, bit, held) ==
    LET p == ns[n].parent
    IN IF bit >= ns[n].width THEN ns
       ELSE IF p \in held THEN BorrowPanic(ns, p)
       ELSE PinPull(ns, p, voltage, bit, held \cup {n, p})

\* InSubBus::pull and OutSubBus::pull
SubBusPull(ns, n, voltage, bit, held) ==
    LET p == ns[n].parent
    IN IF bit >= ns[n].width THEN ns
       ELSE IF p \in held THEN BorrowPanic(ns, p)
       ELSE PinPull(ns, p, voltage, ns[n].start + bit, held \cup {n, p})

\* what pin.pull(voltage, Some(bit)) returns: "ok" or the error kind; a
\* sub-bus hands the call to its parent, ConstantPin::pull is always Ok
RECURSIVE PullResult(_, _, _)
PullResult(ns, n, bit) ==
    CASE ns[n].type = "bus" -> IF bit >= ns[n].width THEN "hardware" ELSE "ok"
      [] ns[n].type \in {"in_sub", "out_sub"} ->
            IF bit >= ns[n].width THEN "hardware"
            ELSE PullResult(ns, ns[n].parent, ns[n].start + bit)
      [] OTHER -> "ok"

RECURSIVE Voltage(_, _, _)
VoltageNoCheck(ns, n, bit) ==
    [result |-> "ok", voltage |-> (PinBusVoltage(ns, n) \div Pow2(bit)) % 2]

\* pin.voltage(Some(bit)) : [result, voltage]
Voltage(ns, n, bit) ==
    IF bit >= ns[n].width THEN [result |-> "hardware", voltage |-> 0]
    ELSE CASE ns[n].type = "bus" ->
                 [result |-> "ok", voltage |-> (ns[n].word \div Pow2(bit)) % 2]
           [] ns[n].type \in {"in_sub", "out_sub"} ->
                 Voltage(ns, ns[n].parent, ns[n].start + bit)
           [] OTHER -> [result |-> "ok", voltage |-> ns[n].word]

\* pin.pull(voltage, Some(bit)) on a dyn Pin; ConstantPin::pull does nothing
PinPull(ns, n, voltage, bit, held) ==
    CASE ns[n].type = "bus" -> Pull(ns, n, voltage, bit, held)
      [] ns[n].type \in {"in_sub", "out_sub"} -> SubBusPull(ns, n, voltage, bit, held)
      [] OTHER -> ns

\* Bus::connect, called on n.borrow_mut()
Connect(ns, n, l) ==
    LET ns1 == IF ns[l].live /\ l # n
               THEN PinSetBusVoltage(ns, l, ns[n].word, {n, l})
               ELSE ns
    IN [ns1 EXCEPT ![n].conns = Append(@, l)]

\* OutSubBus::connect: the listener is borrowed first, then the parent is read
OutSubBusConnect(ns, n, l) ==
    LET ns1 == IF ns[l].live /\ l # n
               THEN IF l = ns[n].parent THEN BorrowPanic(ns, l)
                    ELSE PinSetBusVoltage(ns, l, PinBusVoltage(ns, n), {n, l})
               ELSE ns
    IN [ns1 EXCEPT ![n].conns = Append(@, l)]

\* InSubBus::connect: a live listener is connected to the parent bus instead
\* (the sub-bus itself is borrowed meanwhile, so as its own listener it is
\* pushed without being written)
RECURSIVE PinConnect(_, _, _)
InSubBusConnect(ns, n, l) ==
    IF ~ns[l].live THEN ns
    ELSE IF l = n THEN [ns EXCEPT ![ns[n].parent].conns = Append(@, l)]
    ELSE PinConnect(ns, ns[n].parent, l)

\* from.borrow_mut().connect(weak) on a dyn Pin; ConstantPin::connect does
\* nothing
PinConnect(ns, n, l) ==
    CASE ns[n].type = "bus" -> Connect(ns, n, l)
      [] ns[n].type = "in_sub" -> InSubBusConnect(ns, n, l)
      [] ns[n].type = "out_sub" -> OutSubBusConnect(ns, n, l)
      [] OTHER -> ns

\* ----------------------------------------------------- Not (logic/not.rs)
NotEval(ns, part) ==
    LET input == ns[part.input_pins["in"]].word % 2
        output == IF input = HIGH THEN LOW ELSE HIGH
    IN Pull(ns, part.output_pins["out"], output, 0, {})

\* ------------------------------------------------- composite Chip (chip.rs)
NotFound == 0

\* Chip::new
ChipNew(name) ==
    [name |-> name,
     input_pins |-> << >>,
     output_pins |-> << >>,
     internal_pins |-> << >>,
     sub_chips |-> <<>>,
     subbus_connections |-> <<>>]

ChipGetPin(h, name) ==
    IF name \in DOMAIN h.input_pins THEN h.input_pins[name]
    ELSE IF name \in DOMAIN h.output_pins THEN h.output_pins[name]
    ELSE IF name \in DOMAIN h.internal_pins THEN h.internal_pins[name]
    ELSE NotFound

\* part.get_pin of a built-in (impl_chip_interface_boilerplate)
PartGetPin(part, name) ==
    IF name \in DOMAIN part.input_pins THEN part.input_pins[name]
    ELSE IF name \in DOMAIN part.output_pins THEN part.output_pins[name]
    ELSE NotFound

IsLiteral(name) == name \in {"true", "false"}

\* PinSide.range: None, Some(start..end); kind "full" is a PinRange without bounds
NoRange == [kind |-> "none", start |-> 0, end |-> 0]
BitRange(start, end) == [kind |-> "bits", start |-> start, end |-> end]

\* PinRange::width
RangeWidth(range) ==
    IF range.kind = "bits" THEN range.end - range.start + 1 ELSE 1

\* Chip::resolve_pin_side : [pin, nodes]; a literal is a fresh one-bit bus,
\* written while it has no listener
ResolvePinSide(ns, h, name) ==
    IF name = "true"
    THEN [pin |-> Len(ns) + 1,
          nodes |-> Append(ns, [BusNew("true", 1) EXCEPT !.word = BusStore(1, 1)])]
    ELSE IF name = "false"
    THEN [pin |-> Len(ns) + 1,
          nodes |-> Append(ns, [BusNew("false", 1) EXCEPT !.word = BusStore(1, 0)])]
    ELSE [pin |-> ChipGetPin(h, name), nodes |-> ns]

\* create_input_subbus / create_output_subbus : [pin, nodes, result]; the
\* range without bounds gives the pin itself
CreateSubbus(ns, type, parent_bus, range) ==
    IF range.kind = "full"
    THEN [pin |-> parent_bus, nodes |-> ns, result |-> "ok"]
    ELSE IF range.start + RangeWidth(range) > ns[parent_bus].width
    THEN [pin |-> NotFound, nodes |-> ns, result |-> "invalid_range"]
    ELSE [pin |-> Len(ns) + 1,
          nodes |-> Append(ns, IF type = "in_sub"
                               THEN InSubBusNew(parent_bus, range.start, RangeWidth(range))
                               ELSE OutSubBusNew(parent_bus, range.start, RangeWidth(range))),
          result |-> "ok"]

\* a strong reference to the pin is left in subbus_connections, directly or
\* as the parent of a sub-bus
Tracked(ns, h, pin) ==
    \E i \in 1 .. Len(h.subbus_connections) :
        \/ h.subbus_connections[i] = pin
        \/ ns[h.subbus_connections[i]].parent = pin

\* the fresh bus of a literal is dropped when the connection has been made,
\* unless a tracked sub-bus keeps it
DropLiteral(ns, h, name, pin) ==
    IF IsLiteral(name) /\ ~Tracked(ns, h, pin)
    THEN [ns EXCEPT ![pin].live = FALSE]
    ELSE ns

EffectiveWidthOfPin(ns, pin, range) == ns[pin].width

\* the width a side of a connection counts with
EffectiveWidth(ns, pin, range) ==
    IF range.kind # "none" THEN RangeWidth(range) ELSE ns[pin].width

ChipValidateInputConnection(ns, h, part, conn) ==
    LET r == ResolvePinSide(ns, h, conn.from)
        to_pin == PartGetPin(part, conn.to)
    IN IF r.pin = NotFound THEN "pin_not_found"
       ELSE IF to_pin = NotFound THEN "pin_not_found"
       ELSE IF EffectiveWidth(r.nodes, r.pin, conn.from_range)
                   # EffectiveWidth(r.nodes, to_pin, conn.to_range)
       THEN "width_mismatch"
       ELSE "ok"

ChipValidateOutputConnection(ns, h, part, conn) ==
    LET from_pin == PartGetPin(part, conn.to)
        r == ResolvePinSide(ns, h, conn.from)
    IN IF from_pin = NotFound THEN "pin_not_found"
       ELSE IF r.pin = NotFound THEN "pin_not_found"
       ELSE IF EffectiveWidth(r.nodes, from_pin, conn.to_range)
                   # EffectiveWidth(r.nodes, r.pin, conn.from_range)
       THEN "width_mismatch"
       ELSE "ok"

ChipValidateConnection(ns, h, part, conn) ==
    LET is_part_input == conn.to \in DOMAIN part.input_pins
        is_part_output == conn.to \in DOMAIN part.output_pins
    IN IF ~is_part_input /\ ~is_part_output THEN "pin_not_found"
       ELSE IF is_part_input THEN ChipValidateInputConnection(ns, h, part, conn)
       ELSE ChipValidateOutputConnection(ns, h, part, conn)

\* the common tail of make_input_connection and make_output_connection: wrap
\* the source in an output sub-bus and the destination in an input sub-bus
\* where a range is given, track the wrappers, connect : [result, nodes, host]
ConnectSides(ns, h, from_pin, from_range, from_name, to_pin, to_range, to_name) ==
    LET f == IF from_range.kind # "none"
             THEN CreateSubbus(ns, "out_sub", from_pin, from_range)
             ELSE [pin |-> from_pin, nodes |-> ns, result |-> "ok"]
        h1 == IF from_range.kind # "none" /\ f.result = "ok"
              THEN [h EXCEPT !.subbus_connections = Append(@, f.pin)]
              ELSE h
        t == IF f.result # "ok" THEN f
             ELSE IF to_range.kind # "none"
             THEN CreateSubbus(f.nodes, "in_sub", to_pin, to_range)
             ELSE [pin |-> to_pin, nodes |-> f.nodes, result |-> "ok"]
        h2 == IF to_range.kind # "none" /\ t.result = "ok"
              THEN [h1 EXCEPT !.subbus_connections = Append(@, t.pin)]
              ELSE h1
    IN IF t.result # "ok"
       THEN [result |-> t.result,
             nodes |-> DropLiteral(DropLiteral(t.nodes, h2, from_name, from_pin),
                                   h2, to_name, to_pin),
             host |-> h2]
       ELSE [result |-> "ok",
             nodes |-> DropLiteral(DropLiteral(PinConnect(t.nodes, f.pin, t.pin),
                                               h2, from_name, from_pin),
                                   h2, to_name, to_pin),
             host |-> h2]

ChipMakeInputConnection(ns, h, part, conn) ==
    LET r == ResolvePinSide(ns, h, conn.from)
        to_pin == PartGetPin(part, conn.to)
    IN ConnectSides(r.nodes, h, r.pin, conn.from_range, conn.from,
                    to_pin, conn.to_range, conn.to)

ChipMakeOutputConnection(ns, h, part, conn) ==
    LET from_pin == PartGetPin(part, conn.to)
        r == ResolvePinSide(ns, h, conn.from)
    IN ConnectSides(r.nodes, h, from_pin, conn.to_range, conn.to,
                    r.pin, conn.from_range, conn.from)

ChipMakeConnectionSwapped(ns, h, part, conn) ==
    IF conn.to \in DOMAIN part.output_pins
    THEN ChipMakeInputConnection(ns, h, part, conn)
    ELSE ChipMakeOutputConnection(ns, h, part, conn)

ChipMakeConnection(ns, h, part, conn) ==
    IF conn.to \in DOMAIN part.input_pins
    THEN ChipMakeInputConnection(ns, h, part, conn)
    ELSE ChipMakeOutputConnection(ns, h, part, conn)

\* the part of a failed wire() is dropped, and with it each of its pins that
\* no tracked sub-bus keeps
DropPart(ns, h, part) ==
    [n \in DOMAIN ns |->
        IF /\ \/ \E q \in DOMAIN part.input_pins : part.input_pins[q] = n
              \/ \E q \in DOMAIN part.output_pins : part.output_pins[q] = n
           /\ ~Tracked(ns, h, n)
        THEN [ns[n] EXCEPT !.live = FALSE]
        ELSE ns[n]]

\* the second loop of Chip::wire and what follows it, made being what the
\* connections before i have made: the first error ends the call and drops
\* the part, the end of the list pushes the part : [result, nodes, host]
RECURSIVE MakeAll(_, _, _, _)
MakeAll(made, part, connections, i) ==
    IF made.result # "ok"
    THEN [made EXCEPT !.nodes = DropPart(@, made.host, part)]
    ELSE IF i > Len(connections)
    THEN [made EXCEPT !.host.sub_chips = Append(@, part)]
    ELSE MakeAll(ChipMakeConnection(made.nodes, made.host, part, connections[i]),
                 part, connections, i + 1)

\* the first connection that does not validate, or "ok"
RECURSIVE ValidateAll(_, _, _, _, _)
ValidateAll(ns, h, part, connections, i) ==
    IF i > Len(connections) THEN "ok"
    ELSE IF ChipValidateConnection(ns, h, part, connections[i]) # "ok"
    THEN ChipValidateConnection(ns, h, part, connections[i])
    ELSE ValidateAll(ns, h, part, connections, i + 1)

ChipWireFront(ns, h, part, connections) ==
    IF ValidateAll(ns, h, part, connections, 1) # "ok"
    THEN [result |-> ValidateAll(ns, h, part, connections, 1),
          nodes |-> DropPart(ns, h, part), host |-> h]
    ELSE [MakeAll([result |-> "ok", nodes |-> ns, host |-> h], part, connections, 1)
             EXCEPT !.host.sub_chips =
                 IF Len(@) > 0 /\ @[Len(@)] = part
                 THEN <<part>> \o SubSeq(@, 1, Len(@) - 1)
                 ELSE @]

\* Chip::wire : [result, nodes, host]
ChipWire(ns, h, part, connections) ==
    IF ValidateAll(ns, h, part, connections, 1) # "ok"
    THEN [result |-> ValidateAll(ns, h, part, connections, 1),
          nodes |-> DropPart(ns, h, part), host |-> h]
    ELSE MakeAll([result |-> "ok", nodes |-> ns, host |-> h], part, connections, 1)

RECURSIVE SubbusLoop(_, _, _)
SubbusLoop(ns, subs, i) ==
    IF i > Len(subs) THEN ns
    ELSE SubbusLoop(PinSetBusVoltage(ns, subs[i], PinBusVoltage(ns, subs[i]), {subs[i]}),
                    subs, i + 1)

\* Chip::propagate_subbus_signals is SubbusLoop(ns, h.subbus_connections, 1)

\* the loop over sub_chips of Chip::eval : [nodes, log]
RECURSIVE EvalLoop(_, _, _, _)
EvalLoop(ns, parts, i, log) ==
    IF i > Len(parts) THEN [nodes |-> ns, log |-> log]
    ELSE EvalLoop(NotEval(ns, parts[i]), parts, i + 1, Append(log, parts[i].id))

\* Chip::eval : [nodes, log]
ChipEval(ns, h) ==
    LET ns1 == SubbusLoop(ns, h.subbus_connections, 1)
        r == EvalLoop(ns1, h.sub_chips, 1, <<>>)
    IN [nodes |-> SubbusLoop(r.nodes, h.subbus_connections, 1), log |-> r.log]

\* pin.borrow_mut().set_bus_voltage(0) for each pin of pins, in their order
RECURSIVE ResetPins(_, _, _)
ResetPins(ns, pins, i) ==
    IF i > Len(pins) THEN ns
    ELSE ResetPins(PinSetBusVoltage(ns, pins[i], 0, {pins[i]}), pins, i + 1)

\* the loop over sub_chips of Chip::reset; the reset of a built-in
\* (impl_chip_interface_boilerplate) resets the input pins, then the output
\* pins
RECURSIVE ResetParts(_, _, _)
ResetParts(ns, parts, i) ==
    IF i > Len(parts) THEN ns
    ELSE ResetParts(ResetPins(ns, <<parts[i].input_pins["in"],
                                    parts[i].output_pins["out"]>>, 1),
                    parts, i + 1)

ChipResetPinsOnly(ns, h, inputs, outputs, internals) ==
    ResetPins(ns, inputs \o outputs \o internals, 1)

\* Chip::reset: the sub-chips, then the input, output and internal pins; each
\* of the three maps is walked in the order its HashMap yields
ChipReset(ns, h, inputs, outputs, internals) ==
    ResetPins(ResetParts(ns, h.sub_chips, 1), inputs \o outputs \o internals, 1)

\* ----------------------------------------------------- SpecChip: a composite
\* The host has the pins in (input), out (output), x and wide (internal, wide
\* of two bits); every part is a Not.
\* NotChip::new on fresh buses; id numbers the parts in the order of wiring,
\* conns records the connection list the part is wired with
NotNew(ns, id) ==
    [part |-> [id |-> id, kind |-> "Not", conns |-> <<>>,
               input_pins |-> [p \in {"in"} |-> Len(ns) + 1],
               output_pins |-> [p \in {"out"} |-> Len(ns) + 2]],
     nodes |-> ns \o <<BusNew("in", 1), BusNew("out", 1)>>]

InitChip ==
    InitWith(BuiltinNew("DFF"), NoPeer,
             <<BusNew("in", 1), BusNew("out", 1), BusNew("x", 1), BusNew("wide", 2)>>,
             [ChipNew("Host") EXCEPT
                 !.input_pins = [p \in {"in"} |-> 1],
                 !.output_pins = [p \in {"out"} |-> 2],
                 !.internal_pins = [p \in {"x", "wide"} |-> IF p = "x" THEN 3 ELSE 4]])

\* a dropped bus that no listener list and no sub-bus refers to is gone
RECURSIVE Compact(_)
Compact(ns) ==
    LET n == Len(ns)
    IN IF /\ n > 0
          /\ ~ns[n].live
          /\ \A m \in 1 .. n :
                /\ ns[m].parent # n
                /\ \A i \in 1 .. Len(ns[m].conns) : ns[m].conns[i] # n
       THEN Compact(SubSeq(ns, 1, n - 1))
       ELSE ns

CWire ==
    /\ Len(host.sub_chips) < MaxParts
    \* connection lists Part(to = from, to = from)
    /\ \E connections \in
          {<<[from |-> a, from_range |-> NoRange, to |-> s, to_range |-> NoRange],
             [from |-> b, from_range |-> NoRange, to |-> t, to_range |-> NoRange]>> :
              a \in {"in", "out", "x", "nopin", "true"},
              b \in {"in", "out", "x", "nopin", "true"},
              <<s, t>> \in {<<"in", "out">>, <<"out", "in">>, <<"in", "foo">>}} :
          \E w \in {ChipWire(NotNew(nodes, Len(host.sub_chips) + 1).nodes, host,
                             NotNew(nodes, Len(host.sub_chips) + 1).part, connections)} :
             /\ nodes' = Compact(w.nodes)
             /\ host' = w.host
             /\ op' = IF w.result = "ok" THEN "wire" ELSE w.result
    /\ call' = NoCall
    /\ UNCHANGED <<chip, phase, tk, dirty, peer, harnessVars, evalLog>>

CSet ==
    /\ \E p \in DOMAIN host.input_pins : \E v \in {LOW, HIGH} :
          nodes' = SetBusVoltage(nodes, host.input_pins[p], v, {})
    /\ op' = "set"
    /\ call' = NoCall
    /\ UNCHANGED <<chip, phase, tk, dirty, peer, harnessVars, host, evalLog>>

CEval ==
    /\ LET r == ChipEval(nodes, host)
       IN /\ nodes' = r.nodes
          /\ evalLog' = r.log
    /\ op' = "eval"
    /\ call' = NoCall
    /\ UNCHANGED <<chip, phase, tk, dirty, peer, harnessVars, host>>

SpecChip == InitChip /\ [][CWire \/ CSet \/ CEval]_vars

\* ------------------------------------------ SpecWire: the wiring of one part
\* The same host; wire() is called until a part is wired, and call keeps the
\* connection list of the last call.
WWire ==
    /\ host.sub_chips = <<>>
    \* connection lists Part(to = from, to = from)
    /\ \E connections \in
          {<<[from |-> a, from_range |-> NoRange, to |-> s, to_range |-> NoRange],
             [from |-> b, from_range |-> NoRange, to |-> t, to_range |-> NoRange]>> :
              a \in {"in", "out", "x", "wide", "nopin", "true", "false"},
              b \in {"in", "out", "x", "wide", "nopin", "true", "false"},
              <<s, t>> \in {<<"in", "out">>, <<"out", "in">>, <<"in", "foo">>}} :
          \E w \in {ChipWire(NotNew(nodes, 1).nodes, host,
                             [NotNew(nodes, 1).part EXCEPT !.conns = connections],
                             connections)} :
             /\ nodes' = Compact(w.nodes)
             /\ host' = w.host
             /\ op' = IF w.result = "ok" THEN "wire" ELSE w.result
             /\ call' = [f |-> "wire", n |-> 0, l |-> 0, v |-> 0, c |-> connections]
    /\ UNCHANGED <<chip, phase, tk, dirty, peer, harnessVars, evalLog>>

SpecWire == InitChip /\ [][WWire \/ CSet \/ CEval]_vars

\* --------------------------------- SpecWidth: one connection with ranges
\* The same host; wire() is called with one connection whose sides may carry
\* a range (no range, a range without bounds, [0], [1], [0..1]) until a part
\* is wired or a call has left a sub-bus on the host.
VWire ==
    /\ host.sub_chips = <<>>
    /\ host.subbus_connections = <<>>
    /\ \E from \in {"in", "out", "wide", "true", "nopin"}, to \in {"in", "out"},
          from_range, to_range \in {NoRange, [kind |-> "full", start |-> 0, end |-> 0],
                                    BitRange(0, 0), BitRange(1, 1), BitRange(0, 1)} :
          \E w \in {ChipWire(NotNew(nodes, 1).nodes, host, NotNew(nodes, 1).part,
                             <<[from |-> from, from_range |-> from_range,
                                to |-> to, to_range |-> to_range]>>)} :
             /\ nodes' = Compact(w.nodes)
             /\ host' = w.host
             /\ op' = IF w.result = "ok" THEN "wire" ELSE w.result
             /\ call' = [f |-> "wire", n |-> 0, l |-> 0, v |-> 0,
                         c |-> <<[from |-> from, from_range |-> from_range,
                                  to |-> to, to_range |-> to_range]>>]
    /\ UNCHANGED <<chip, phase, tk, dirty, peer, harnessVars, evalLog>>

SpecWidth == InitChip /\ [][VWire \/ CSet \/ CEval]_vars

\* -------------------------------------------- SpecReset: reset of a composite
\* The same host, wired part by part, set, evaluated and reset.
CReset ==
    /\ \E inputs \in {s \in [1 .. Cardinality(DOMAIN host.input_pins) -> DOMAIN host.input_pins] :
                          \A i, j \in DOMAIN s : s[i] = s[j] => i = j},
          outputs \in {s \in [1 .. Cardinality(DOMAIN host.output_pins) -> DOMAIN host.output_pins] :
                          \A i, j \in DOMAIN s : s[i] = s[j] => i = j},
          internals \in {s \in [1 .. Cardinality(DOMAIN host.internal_pins) -> DOMAIN host.internal_pins] :
                          \A i, j \in DOMAIN s : s[i] = s[j] => i = j} :
          nodes' = ChipReset(nodes, host,
                             [i \in DOMAIN inputs |-> host.input_pins[inputs[i]]],
                             [i \in DOMAIN outputs |-> host.output_pins[outputs[i]]],
                             [i \in DOMAIN internals |-> host.internal_pins[internals[i]]])
    /\ op' = "reset"
    /\ call' = NoCall
    /\ UNCHANGED <<chip, phase, tk, dirty, peer, harnessVars, host, evalLog>>

SpecReset == InitChip /\ [][CWire \/ CSet \/ CEval \/ CReset]_vars

\* ------------------------------------------------- SpecGetPin: pin lookup
\* get_pin through the ChipInterface trait, on the composite (target 0), on
\* its part (target 1) and on the DFF (target 2, whose pins the model keeps
\* by name: pin is 0 there) : [pin, error]. Chip::get_pin and the built-ins of
\* impl_chip_interface_boilerplate return SimulatorError::Hardware for an
\* absent name, the clocked built-ins SimulatorError::PinNotFound.
InterfaceGetPin(c, h, target, name) ==
    IF target = 0
    THEN [pin |-> ChipGetPin(h, name),
          error |-> IF ChipGetPin(h, name) = NotFound THEN "hardware" ELSE "none"]
    ELSE IF target = 1
    THEN [pin |-> PartGetPin(h.sub_chips[1], name),
          error |-> IF PartGetPin(h.sub_chips[1], name) = NotFound
                    THEN "hardware" ELSE "none"]
    ELSE [pin |-> 0,
          error |-> IF name \in PinNames(c.kind) THEN "none" ELSE "pin_not_found"]

GGetPin ==
    /\ \E target \in {0, 2} \cup (IF host.sub_chips = <<>> THEN {} ELSE {1}),
          name \in {"in", "out", "x", "wide", "t", "nopin"} :
          \E r \in {InterfaceGetPin(chip, host, target, name)} :
             /\ call' = [f |-> "get_pin", n |-> target, l |-> r.pin, v |-> 0, c |-> <<name>>]
             /\ op' = IF r.error = "none" THEN "get_pin" ELSE r.error
    /\ UNCHANGED <<chip, phase, tk, dirty, peer, harnessVars, nodes, host, evalLog>>

\* The host of SpecChip with names that are in several of its maps: in is an
\* input (1), an output (5) and an internal pin (7), out is an output (2) and
\* an internal pin (6).
SpecGetPin ==
    /\ InitWith(BuiltinNew("DFF"), NoPeer,
                <<BusNew("in", 1), BusNew("out", 1), BusNew("x", 1), BusNew("wide", 2),
                  BusNew("in", 1), BusNew("out", 1), BusNew("in", 1)>>,
                [ChipNew("Host") EXCEPT
                    !.input_pins = [p \in {"in"} |-> 1],
                    !.output_pins = [p \in {"out", "in"} |-> IF p = "out" THEN 2 ELSE 5],
                    !.internal_pins = [p \in {"x", "wide", "out", "in"} |->
                                          CASE p = "x" -> 3 [] p = "wide" -> 4
                                            [] p = "out" -> 6 [] OTHER -> 7]])
    /\ [][WWire \/ CSet \/ CEval \/ GGetPin]_vars

\* ------------------------------------------------ SpecChain: a chain of DFFs
\* MaxParts + 1 DFFs; the out of each is connected to the in of the next, so
\* Bus::pull on out writes the listener in. One cycle ticks every DFF once and
\* tocks every DFF once, a DFF's tock after its own tick, in any interleaving;
\* ran keeps who has ticked and tocked in the cycle and whether every tick so
\* far came before every tock, tk keeps the pins as the cycle began.
KSet ==
    /\ ran.ticked = {} \/ ran.tocked = 1 .. Len(host.sub_chips)
    /\ \E v \in {LOW, HIGH} :
          host' = [host EXCEPT !.sub_chips[1] = PinSet(@, "in", v)]
    /\ op' = "set"
    /\ UNCHANGED <<chip, phase, tk, dirty, peer, clock, nticks, ran, nodes, evalLog, call>>

KTick ==
    /\ \E i \in 1 .. Len(host.sub_chips) :
          /\ ran.tocked = 1 .. Len(host.sub_chips) \/ i \notin ran.ticked
          /\ host' = [host EXCEPT !.sub_chips[i] = ClockedTick(@)]
          /\ IF ran.ticked = {} \/ ran.tocked = 1 .. Len(host.sub_chips)
             THEN /\ ran' = [ticked |-> {i}, tocked |-> {}, ordered |-> TRUE]
                  /\ tk' = [j \in 1 .. Len(host.sub_chips) |-> host.sub_chips[j].pins]
             ELSE /\ ran' = [ran EXCEPT !.ticked = @ \cup {i},
                                        !.ordered = @ /\ ran.tocked = {}]
                  /\ UNCHANGED tk
    /\ op' = "tick"
    /\ UNCHANGED <<chip, phase, dirty, peer, clock, nticks, nodes, evalLog, call>>

KTock ==
    /\ \E i \in ran.ticked \ ran.tocked :
          /\ host' = [host EXCEPT
                         !.sub_chips = [j \in DOMAIN @ |->
                             IF j = i THEN ClockedTock(@[i])
                             ELSE IF j = i + 1
                             THEN PinSet(@[j], "in", ClockedTock(@[i]).pins["out"])
                             ELSE @[j]]]
          /\ ran' = [ran EXCEPT !.tocked = @ \cup {i}]
    /\ op' = "tock"
    /\ UNCHANGED <<chip, phase, tk, dirty, peer, clock, nticks, nodes, evalLog, call>>

SpecChain ==
    /\ chip = BuiltinNew("DFF")
    /\ peer = NoPeer
    /\ phase = LOW
    /\ op = "new"
    /\ tk = [j \in 1 .. MaxParts + 1 |-> BuiltinNew("DFF").pins]
    /\ dirty = FALSE
    /\ clock = [level |-> LOW, ticks |-> 0]
    /\ nticks = 0
    /\ ran = [ticked |-> {}, tocked |-> {}, ordered |-> TRUE]
    /\ nodes = <<>>
    /\ host = [ChipNew("Chain") EXCEPT
                  !.sub_chips = [j \in 1 .. MaxParts + 1 |-> BuiltinNew("DFF")]]
    /\ evalLog = <<>>
    /\ call = NoCall
    /\ [][KSet \/ KTick \/ KTock]_vars

\* ------------------------------------------------ ChipBuilder (builder.rs)
\* An HDL wire to=from is the record [from, to] of its two names (hdl.rs,
\* parse_connections_line); the builder ignores the ranges.
IsConstantPin(name) == name \in {"false", "true", "0", "1"}

HdlWire(to, from) ==
    [from |-> from, from_range |-> NoRange, to |-> to, to_range |-> NoRange]

\* ChipBuilder::resolve_wire_side : [pin, nodes]; a constant is a fresh
\* ConstantPin, every other name is looked up on the chip being built
ResolveWireSide(ns, h, name) ==
    IF IsConstantPin(name)
    THEN [pin |-> Len(ns) + 1, nodes |-> Append(ns, ConstantPinNew(name))]
    ELSE [pin |-> ChipGetPin(h, name), nodes |-> ns]

\* ChipBuilder::connect_part: the part itself is not looked at
RECURSIVE ConnectPart(_, _, _, _)
ConnectPart(ns, h, connections, i) ==
    IF i > Len(connections) THEN ns
    ELSE LET wire == connections[i]
             from_pin == ResolveWireSide(ns, h, wire.from)
             to_pin == ResolveWireSide(from_pin.nodes, h, wire.to)
             ns1 == PinConnect(to_pin.nodes, from_pin.pin, to_pin.pin)
             \* the Rc of a constant resolved for the wire is dropped after it
             ns2 == [n \in DOMAIN ns1 |->
                        IF \/ n = to_pin.pin /\ IsConstantPin(wire.to)
                           \/ n = from_pin.pin /\ IsConstantPin(wire.from)
                        THEN [ns1[n] EXCEPT !.live = FALSE]
                        ELSE ns1[n]]
         IN ConnectPart(ns2, h, connections, i + 1)

\* ChipBuilder::collect_internal_pins : [nodes, host]
CollectInternalPins(ns, h, name) ==
    IF \/ name \in DOMAIN h.input_pins
       \/ name \in DOMAIN h.output_pins
       \/ IsConstantPin(name)
       \/ name \in DOMAIN h.internal_pins
    THEN [nodes |-> ns, host |-> h]
    ELSE [nodes |-> Append(ns, BusNew(name, 1)),
          host |-> [h EXCEPT !.internal_pins =
                       [q \in DOMAIN @ \cup {name} |->
                           IF q = name THEN Len(ns) + 1 ELSE @[q]]]]

\* the first pass of build_parts, over the wires of one part : [nodes, host]
RECURSIVE CollectWires(_, _, _, _)
CollectWires(ns, h, connections, i) ==
    IF i > Len(connections) THEN [nodes |-> ns, host |-> h]
    ELSE LET a == CollectInternalPins(ns, h, connections[i].from)
             b == CollectInternalPins(a.nodes, a.host, connections[i].to)
         IN CollectWires(b.nodes, b.host, connections, i + 1)

RECURSIVE CollectParts(_, _, _, _)
CollectParts(ns, h, parts, i) ==
    IF i > Len(parts) THEN [nodes |-> ns, host |-> h]
    ELSE LET a == CollectWires(ns, h, parts[i].connections, 1)
         IN CollectParts(a.nodes, a.host, parts, i + 1)

\* the second pass of build_parts : [nodes, host]
RECURSIVE ConnectParts(_, _, _, _)
ConnectParts(ns, h, parts, i) ==
    IF i > Len(parts) THEN [nodes |-> ns, host |-> h]
    ELSE LET sub_chip == NotNew(ns, i)
             ns1 == ConnectPart(sub_chip.nodes, h, parts[i].connections, 1)
         IN ConnectParts(ns1,
                         [h EXCEPT !.sub_chips =
                             Append(@, [sub_chip.part EXCEPT !.conns = parts[i].connections])],
                         parts, i + 1)

\* ChipBuilder::build_chip of CHIP name { IN in; OUT out; PARTS: parts }
BuildChip(hdl_chip) ==
    LET chip0 == [ChipNew(hdl_chip.name) EXCEPT
                     !.input_pins = [q \in {"in"} |-> 1],
                     !.output_pins = [q \in {"out"} |-> 2]]
        \* build_parts: the internal pins first, then the parts
        a == CollectParts(<<BusNew("in", 1), BusNew("out", 1)>>, chip0, hdl_chip.parts, 1)
    IN ConnectParts(a.nodes, a.host, hdl_chip.parts, 1)

\* --------------------------------------------- SpecBuilder: chips from HDL
\* The parts are Not(in=X, out=Y) with X one of in, true, false, w and Y one
\* of out, w.
BBuild ==
    /\ nodes = <<>>
    /\ \E hdl_chip \in
            {[name |-> "Built", parts |-> ps] :
                ps \in UNION {[1 .. n ->
                    {[name |-> "Not",
                      connections |-> <<HdlWire("in", x), HdlWire("out", y)>>] :
                        x \in {"in", "true", "false", "w"}, y \in {"out", "w"}}] :
                    n \in 1 .. MaxParts}} :
          LET b == BuildChip(hdl_chip)
          IN /\ nodes' = Compact(b.nodes)
             /\ host' = b.host
    /\ op' = "build"
    /\ call' = NoCall
    /\ UNCHANGED <<chip, phase, tk, dirty, peer, harnessVars, evalLog>>

SpecBuilder ==
    /\ InitWith(BuiltinNew("DFF"), NoPeer, <<>>, ChipNew("none"))
    /\ [][BBuild \/ CSet \/ CEval]_vars

\* --------------------------------- SpecRange: an inverter over bit ranges
\* The host has the input in and the output out, both MaxParts bits wide;
\* the part for bit i is a Not wired in[i] -> Not.in, Not.out -> out[i]
\* (test_pin_range_wire_connection). The bits are wired in any order.
RWire ==
    /\ \E bit \in (0 .. MaxParts - 1) \
                     {nodes[n].start : n \in {m \in DOMAIN nodes : nodes[m].type = "out_sub"}} :
          \E w \in {ChipWire(NotNew(nodes, Len(host.sub_chips) + 1).nodes, host,
                             NotNew(nodes, Len(host.sub_chips) + 1).part,
                             <<[from |-> "in", from_range |-> BitRange(bit, bit),
                                to |-> "in", to_range |-> NoRange],
                               [from |-> "out", from_range |-> BitRange(bit, bit),
                                to |-> "out", to_range |-> NoRange]>>)} :
             /\ nodes' = Compact(w.nodes)
             /\ host' = w.host
             /\ op' = IF w.result = "ok" THEN "wire" ELSE w.result
    /\ UNCHANGED <<chip, phase, tk, dirty, peer, harnessVars, evalLog, call>>

RSet ==
    /\ \E v \in 0 .. Pow2(MaxParts) - 1 :
          nodes' = PinSetBusVoltage(nodes, host.input_pins["in"], v, {host.input_pins["in"]})
    /\ op' = "set"
    /\ UNCHANGED <<chip, phase, tk, dirty, peer, harnessVars, host, evalLog, call>>

SpecRange ==
    /\ InitWith(BuiltinNew("DFF"), NoPeer,
                <<BusNew("in", MaxParts), BusNew("out", MaxParts)>>,
                [ChipNew("Range") EXCEPT !.input_pins = [p \in {"in"} |-> 1],
                                         !.output_pins = [p \in {"out"} |-> 2]])
    /\ [][RWire \/ RSet \/ CEval]_vars

\* ------------- SpecFlow: parts in data-flow order, parts wired to a literal
\* The host of SpecChip. The first Not takes in, or the literal true, and
\* drives an internal pin, x or a bit of wide, from out or from out[0]; the
\* Nots after it read an internal pin, or the literal true, and drive out.
FWire ==
    /\ Len(host.sub_chips) < MaxParts
    /\ \E side \in {[name |-> "x", range |-> NoRange],
                    [name |-> "wide", range |-> BitRange(0, 0)],
                    [name |-> "wide", range |-> BitRange(1, 1)],
                    [name |-> "true", range |-> NoRange]},
          part_range \in {NoRange, BitRange(0, 0)} :
          \E connections \in
                {IF host.sub_chips = <<>>
                 THEN <<[from |-> IF side.name = "true" THEN "true" ELSE "in",
                         from_range |-> NoRange,
                         to |-> "in", to_range |-> NoRange],
                        [from |-> IF side.name = "true" THEN "x" ELSE side.name,
                         from_range |-> side.range,
                         to |-> "out", to_range |-> part_range]>>
                 ELSE <<[from |-> side.name, from_range |-> side.range,
                         to |-> "in", to_range |-> part_range],
                        [from |-> "out", from_range |-> NoRange,
                         to |-> "out", to_range |-> NoRange]>>} :
             \E w \in {ChipWire(NotNew(nodes, Len(host.sub_chips) + 1).nodes, host,
                                [NotNew(nodes, Len(host.sub_chips) + 1).part
                                    EXCEPT !.conns = connections],
                                connections)} :
                /\ nodes' = Compact(w.nodes)
                /\ host' = w.host
                /\ op' = IF w.result = "ok" THEN "wire" ELSE w.result
    /\ call' = NoCall
    /\ UNCHANGED <<chip, phase, tk, dirty, peer, harnessVars, evalLog>>

SpecFlow == InitChip /\ [][FWire \/ CSet \/ CEval \/ CReset]_vars

\* ------------------------------------------- SpecSignal: the signal layer
\* Six nodes behind the Pin trait: the buses a and b of two bits and c of one
\* bit, the input sub-bus a[1..1], the output sub-bus a[1..1] and the constant
\* true. The driver connects listeners and writes words through the trait.
SignalNodes ==
    <<BusNew("a", 2), BusNew("b", 2), BusNew("c", 1),
      InSubBusNew(1, 1, 1), OutSubBusNew(1, 1, 1), ConstantPinNew("true")>>

\* n.borrow_mut().connect(Rc::downgrade(&l)); a panic ends the run. The
\* connections <<n, l>> the driver may make, while fewer than MaxEdges have
\* been made: fan-out, chains, a cycle, sub-buses and the constant on either
\* side. In SpecWord each of five connections is made once at most: the
\* narrow bus c with the wider listener a, the cycle of a and b, b with the
\* listener a[1..1], and c as its own listener.
SConnect ==
    /\ op # "panic"
    /\ IF host.name = "Word" THEN TRUE
       ELSE Cardinality({e \in (1 .. Len(nodes)) \X (1 .. MaxEdges) :
                           e[2] <= Len(nodes[e[1]].conns)}) < MaxEdges
    /\ \E w \in IF host.name = "Word"
                THEN {<<3, 1>>, <<1, 2>>, <<2, 1>>, <<2, 4>>, <<3, 3>>}
                ELSE {<<1, 2>>, <<1, 3>>, <<1, 4>>, <<1, 6>>,
                      <<2, 1>>, <<2, 3>>, <<2, 4>>, <<2, 5>>,
                      <<4, 3>>, <<5, 2>>, <<5, 3>>, <<6, 3>>} :
          LET n == w[1]
              l == w[2]
              r == PinConnect(nodes, n, l)
          IN /\ IF host.name = "Word"
                THEN \A i \in 1 .. Len(nodes[n].conns) : nodes[n].conns[i] # l
                ELSE TRUE
             /\ nodes[n].live /\ nodes[l].live
             /\ call' = [f |-> "connect", n |-> n, l |-> l, v |-> 0, c |-> <<>>]
             /\ IF Panicked(r)
                THEN /\ op' = "panic"
                     /\ UNCHANGED nodes
                ELSE /\ op' = "connect"
                     /\ nodes' = r
    /\ UNCHANGED <<chip, phase, tk, dirty, peer, harnessVars, host, evalLog>>

\* n.borrow_mut().set_bus_voltage(v)
SSetBusVoltage ==
    /\ op # "panic"
    /\ \E n \in 1 .. Len(SignalNodes) : \E v \in 0 .. (Pow2(2) - 1) :
          LET r == PinSetBusVoltage(nodes, n, v, {n})
          IN /\ nodes[n].live
             /\ call' = [f |-> "set_bus_voltage", n |-> n, l |-> 0, v |-> v,
                         c |-> nodes[n].conns]
             /\ IF Panicked(r)
                THEN /\ op' = "panic"
                     /\ UNCHANGED nodes
                ELSE /\ op' = "set_bus_voltage"
                     /\ nodes' = r
    /\ UNCHANGED <<chip, phase, tk, dirty, peer, harnessVars, host, evalLog>>

SpecSignal ==
    /\ InitWith(BuiltinNew("DFF"), NoPeer, SignalNodes, [name |-> "none"])
    /\ [][SConnect \/ SSetBusVoltage]_vars

\* ------------------------- SpecWord: listeners of another width, cycles
\* The same nodes, connected as Chip::connect_pins does, which compares no
\* widths and looks for no cycle.
SpecWord ==
    /\ InitWith(BuiltinNew("DFF"), NoPeer, SignalNodes, [name |-> "Word"])
    /\ [][SConnect \/ SSetBusVoltage]_vars

\* ------------------------------------------ SpecBit: reads and writes of a bit
\* The same nodes; the driver connects listeners and calls pull(voltage, bit)
\* and then voltage(bit) on a node, for the bits 0 .. 2: call keeps what the
\* two calls returned.
SPull ==
    /\ op # "panic"
    /\ \E n \in 1 .. Len(SignalNodes), bit \in 0 .. 2, v \in {LOW, HIGH} :
          \E r \in {PinPull(nodes, n, v, bit, {n})} :
             IF Panicked(r)
             THEN /\ op' = "panic"
                  /\ call' = [f |-> "pull", n |-> n, l |-> bit, v |-> v, c |-> <<>>]
                  /\ UNCHANGED nodes
             ELSE /\ op' = "pull"
                  /\ call' = [f |-> "pull", n |-> n, l |-> bit, v |-> v,
                              c |-> <<PullResult(nodes, n, bit), Voltage(r, n, bit)>>]
                  /\ nodes' = r
    /\ UNCHANGED <<chip, phase, tk, dirty, peer, harnessVars, host, evalLog>>

SpecBit ==
    /\ InitWith(BuiltinNew("DFF"), NoPeer, SignalNodes, [name |-> "none"])
    /\ [][SConnect \/ SPull]_vars

\* ------------------------------------ SpecDrop: a listener that goes away
\* The same nodes; the driver may also drop its Rc of the bus c or of
\* the input sub-bus, the last strong reference to it: one node is dropped at
\* most, and a dropped node is not used by the driver any more.
SDrop ==
    /\ op # "panic"
    /\ \A m \in DOMAIN nodes : nodes[m].live
    /\ \E n \in {3, 4} :
          /\ nodes' = [nodes EXCEPT ![n].live = FALSE]
          /\ call' = [f |-> "drop", n |-> n, l |-> 0, v |-> 0, c |-> <<>>]
    /\ op' = "drop"
    /\ UNCHANGED <<chip, phase, tk, dirty, peer, harnessVars, host, evalLog>>

SpecDrop ==
    /\ InitWith(BuiltinNew("DFF"), NoPeer, SignalNodes, [name |-> "none"])
    /\ [][SConnect \/ SSetBusVoltage \/ SDrop]_vars

\* ------------------------------------------------------------------ claims
Out == chip.pins["out"]

\* C1: for a DFF, between the tick and the tock of a cycle out still has the
\* value it had before that tick, and after the tock that follows the tick
\* out equals the value in had at the tick.
Thm_C1 ==
    chip.kind = "DFF" =>
        /\ (op = "tick" => Out = tk.pins["out"])
        /\ ((op = "tock" /\ ~dirty) => Out = tk.pins["in"])

Wit_C1 ==
    /\ chip.kind = "DFF"
    /\ op = "tock"
    /\ ~dirty
    /\ tk.pins["in"] = HIGH
    /\ tk.pins["out"] = LOW
    /\ Out = HIGH

\* C2: for every clocked built-in a tick changes neither out nor any input
\* pin (it only updates the internal state), and a tock writes the internal
\* state to out.
Thm_C2 ==
    [][/\ (op' = "tick" =>
             \A p \in InputPins(chip.kind) \cup {"out"} : chip'.pins[p] = chip.pins[p])
       /\ (op' = "tock" =>
             /\ chip'.pins["out"] = Published(chip)
             /\ chip'.st = chip.st)]_vars

Wit_C2 ==
    /\ chip.kind \in RamKinds
    /\ op = "tick"
    /\ Published(chip) # Out
    /\ Out # 0

\* C3: the state of the PC after a tick is 0 when reset was 1, else in when
\* load was 1, else the old state plus one modulo 2^16 when inc was 1, else
\* the old state; after the tock out is that state.
PcFollows(s, t) ==
    LET r == t.pins["reset"]
        l == t.pins["load"]
        i == t.pins["inc"]
    IN /\ (r = 1 => s = 0)
       /\ ((r = 0 /\ l = 1) => s = t.pins["in"])
       /\ ((r = 0 /\ l = 0 /\ i = 1) => s = (t.stored + 1) % 65536)
       /\ ((r = 0 /\ l = 0 /\ i = 0) => s = t.stored)

Thm_C3 ==
    chip.kind = "PC" =>
        /\ (op = "tick" => PcFollows(chip.st.bits, tk))
        /\ ((op = "tock" /\ ~dirty) => PcFollows(Out, tk))

Wit_C3 ==
    /\ chip.kind = "PC"
    /\ op = "tock"
    /\ ~dirty
    /\ tk.pins["reset"] = 1 /\ tk.pins["load"] = 1 /\ tk.pins["inc"] = 1
    /\ tk.pins["in"] # 0
    /\ tk.stored # 0
    /\ Out = 0

\* C4: for Bit and Register, when load was 0 at the tick, out after the tock
\* of that cycle equals out before the tick, whatever in is.
Thm_C4 ==
    (chip.kind \in {"Bit", "Register"} /\ op = "tock" /\ ~dirty /\ tk.pins["load"] = LOW)
        => Out = tk.pins["out"]

Wit_C4 ==
    /\ chip.kind = "Register"
    /\ op = "tock"
    /\ ~dirty
    /\ tk.pins["load"] = LOW
    /\ tk.pins["in"] # tk.pins["out"]
    /\ tk.pins["in"] # 0
    /\ Out = tk.pins["out"]
    /\ Out # 0

\* C5: in RAMk and Screen a memory word changes only in a tick taken with
\* load = 1, and no pin write, eval, tick or tock taken while load = 0
\* changes a memory word.
Cex_C5 ==
    [][(chip.kind \in RamKinds /\ op' # "reset") =>
          /\ (chip'.st.memory # chip.st.memory =>
                 (op' = "tick" /\ chip.pins["load"] = HIGH))
          /\ (chip.pins["load"] = LOW => chip'.st.memory = chip.st.memory)]_vars

\* C6: in RAMk a write to address a (by a tick or an eval) leaves the word
\* at every other address b unchanged.
Thm_C6 ==
    [][(chip.kind \in RamKinds /\ op' \in {"tick", "eval"}) =>
          \A b \in DOMAIN chip.st.memory :
              b # AddrMask(chip.pins["address"]) =>
                  chip'.st.memory[b] = chip.st.memory[b]]_vars

Wit_C6 ==
    /\ chip.kind \in RamKinds
    /\ op = "tick"
    /\ chip.pins["load"] = HIGH
    /\ chip.st.memory[chip.st.current_address] = chip.pins["in"]
    /\ chip.pins["in"] # 0
    /\ \E b \in DOMAIN chip.st.memory :
          /\ b # chip.st.current_address
          /\ chip.st.memory[b] \notin {0, chip.pins["in"]}

\* C7: a Screen and a RAM driven with the same pin writes, eval, tick, tock
\* and reset have the same memory contents and the same out after every step.
Cex_C7 ==
    peer.kind = "RAM16K" =>
        /\ peer.st.memory = chip.st.memory
        /\ peer.pins["out"] = chip.pins["out"]

\* C8: with a DFF under test, the harness instructions set in=v, tick, tock
\* leave out equal to v (tick and tock drive the chip's phase hooks).
Cex_C8 ==
    (/\ chip.kind = "DFF"
     /\ Len(ran) = 3
     /\ ran[1].i = "set" /\ ran[1].pin = "in"
     /\ ran[2].i = "tick"
     /\ ran[3].i = "tock")
        => Out = ran[1].value

\* C9: the clock starts low with count zero, every tick() toggles the level,
\* and the count goes up on low-to-high transitions only: after n ticks the
\* count is ceil(n/2).
Cex_C9 ==
    /\ clock.level = (IF nticks % 2 = 1 THEN HIGH ELSE LOW)
    /\ clock.ticks = (nticks + 1) \div 2

\* C10: one eval of a composite chip calls the eval of each of its parts
\* exactly once, in the order in which the parts were wired.
Thm_C10 ==
    op = "eval" => evalLog = [i \in 1 .. Len(host.sub_chips) |-> i]

\* in -> Not -> x -> Not -> out, wired in that order and evaluated
Wit_C10 ==
    /\ op = "eval"
    /\ Len(host.sub_chips) = 2
    /\ evalLog = <<1, 2>>
    /\ nodes[host.input_pins["in"]].conns = <<host.sub_chips[1].input_pins["in"]>>
    /\ nodes[host.sub_chips[1].output_pins["out"]].conns = <<host.internal_pins["x"]>>
    /\ nodes[host.internal_pins["x"]].conns = <<host.sub_chips[2].input_pins["in"]>>
    /\ nodes[host.sub_chips[2].output_pins["out"]].conns = <<host.output_pins["out"]>>
    /\ nodes[host.input_pins["in"]].word = HIGH
    /\ nodes[host.internal_pins["x"]].word = LOW
    /\ nodes[host.output_pins["out"]].word = HIGH

\* ---------------------------------------------- claims on the signal layer
\* listener l holds the word x, up to its width
Holds(ns, l, x) == PinBusVoltage(ns, l) = x % Pow2(ns[l].width)

\* the listeners a write to n pushes to: those of n, and for a sub-bus those
\* of the parent it writes
Pushed(ns, n) ==
    {ns[n].conns[i] : i \in 1 .. Len(ns[n].conns)}
        \cup (IF ns[n].parent # 0
              THEN {ns[n].parent} \cup {ns[ns[n].parent].conns[i] :
                                          i \in 1 .. Len(ns[ns[n].parent].conns)}
              ELSE {})

RECURSIVE ReachLoop(_, _, _)
ReachLoop(ns, X, k) ==
    IF k = 0 THEN X
    ELSE ReachLoop(ns, X \cup UNION {Pushed(ns, x) : x \in X}, k - 1)

\* n and the nodes reachable from n through listener edges
Reach(ns, n) == ReachLoop(ns, {n}, Len(ns))

Listeners(ns, n) ==
    {l \in {ns[n].conns[i] : i \in 1 .. Len(ns[n].conns)} :
        ns[l].live /\ ns[l].type # "const" /\ l # n}

\* C11: when set_word on a node N returns, every node reachable from N
\* through listener edges (through buses and sub-buses) has been written with
\* the value derived from the new word of N: each listener on the way holds
\* the projection of the word of the node it listens to.
Cex_C11 ==
    [][op' = "set_bus_voltage" =>
          \A m \in Reach(nodes, call'.n) : \A l \in Listeners(nodes, m) :
              Holds(nodes', l, PinBusVoltage(nodes', m))]_vars

\* C12: once a listener L is attached to a node N, N.set_word(v) leaves
\* L.get_word() equal to v up to the width of L (for a slice listener, the
\* bits of v the slice covers).
Cex_C12 ==
    [][(op' = "set_bus_voltage" /\ call'.v < Pow2(nodes[call'.n].width)) =>
          \A l \in Listeners(nodes, call'.n) : Holds(nodes', l, call'.v)]_vars

\* C13: whenever the value read from an output sub-bus changes, by a write to
\* the sub-bus or by a write to its parent, every listener of the sub-bus ends
\* up holding the new projected value.
Cex_C13 ==
    [][\A o \in DOMAIN nodes :
          (/\ nodes[o].type = "out_sub"
           /\ op' = "set_bus_voltage"
           /\ PinBusVoltage(nodes', o) # PinBusVoltage(nodes, o)) =>
              \A l \in Listeners(nodes, o) :
                  Holds(nodes', l, PinBusVoltage(nodes', o))]_vars

\* the listener list a connect on n appends to (an input sub-bus forwards the
\* registration to its parent)
ListenerList(ns, n) ==
    IF ns[n].type = "in_sub" THEN ns[ns[n].parent].conns ELSE ns[n].conns

\* C14: attach(listener) on any signal node, a constant node included, writes
\* the node's current word into the listener at once and appends the listener
\* to the node's listener list.
Cex_C14 ==
    [][(op' = "connect" /\ nodes[call'.l].type # "const" /\ call'.l # call'.n) =>
          /\ Holds(nodes', call'.l, PinBusVoltage(nodes, call'.n))
          /\ ListenerList(nodes', call'.n) =
                 Append(ListenerList(nodes, call'.n), call'.l)]_vars

\* C15 as claimed: for a sub-bus S of parent P with offset s and width w,
\* S.set_word(v) leaves every bit of P outside [s, s+w) unchanged.
OutsideBits(ns, s) ==
    LET p == PinBusVoltage(ns, ns[s].parent)
    IN p - PinBusVoltage(ns, s) * Pow2(ns[s].start)

Cex_C15 ==
    [][(op' = "set_bus_voltage" /\ nodes[call'.n].parent # 0) =>
          OutsideBits(nodes', call'.n) = OutsideBits(nodes, call'.n)]_vars

\* C16 as claimed: for every signal node N of width W and every v below 2^W,
\* N.set_word(v) followed by N.get_word() returns v.
Cex_C16 ==
    (op = "set_bus_voltage" /\ call.v < Pow2(nodes[call.n].width)) =>
        PinBusVoltage(nodes, call.n) = call.v

\* no listener chain of an output sub-bus leads back into its own parent
NoFeedback(ns, n) ==
    ns[n].type = "out_sub" =>
        \A i \in 1 .. Len(ns[n].conns) : ns[n].parent \notin Reach(ns, ns[n].conns[i])

\* C15, amended: S.set_word(v) on a sub-bus S of parent P leaves every bit of
\* P outside [s, s+w) unchanged, provided no listener chain of S writes P.
Thm_C15 ==
    [][(/\ op' = "set_bus_voltage"
        /\ nodes[call'.n].parent # 0
        /\ NoFeedback(nodes, call'.n)) =>
          OutsideBits(nodes', call'.n) = OutsideBits(nodes, call'.n)]_vars

Wit_C15 ==
    /\ op = "set_bus_voltage"
    /\ call.n = 5
    /\ call.v = 1
    /\ nodes[5].conns = <<3>>
    /\ nodes[1].word = 3

\* C16, amended: for every bus and sub-bus N of width W (a constant node
\* ignores writes) and every v below 2^W, N.set_word(v) followed by
\* N.get_word() returns v, provided no listener chain of N writes N's parent.
Thm_C16 ==
    (/\ op = "set_bus_voltage"
     /\ call.v < Pow2(nodes[call.n].width)
     /\ nodes[call.n].type # "const"
     /\ NoFeedback(nodes, call.n)) =>
        PinBusVoltage(nodes, call.n) = call.v

Wit_C16 ==
    /\ op = "set_bus_voltage"
    /\ call.n = 2
    /\ call.v = 3
    /\ nodes[2].conns = <<1, 3>>
    /\ PinBusVoltage(nodes, 2) = 3

\* C17: within the propagation of one write to a bus, the listeners receive
\* the write in the order in which they were attached: the outcome is that of
\* storing the word and then writing the first, the second and the third
\* listener in turn.
Thm_C17 ==
    [][(op' = "set_bus_voltage" /\ nodes[call'.n].type = "bus") =>
          LET n == call'.n
              v == call'.v
              c == nodes[n].conns
              Deliver(ns, i) ==
                  IF i > Len(c) \/ c[i] = n THEN ns
                  ELSE PinSetBusVoltage(ns, c[i], v, {n, c[i]})
              stored == [nodes EXCEPT ![n].word = v % Pow2(nodes[n].width)]
          IN nodes' = Deliver(Deliver(Deliver(stored, 1), 2), 3)]_vars

\* b was written 1 with the listeners a, then a[1..1]: a took 1 and then its
\* bit 1 was set (the other order leaves a = 1)
Wit_C17 ==
    /\ op = "set_bus_voltage"
    /\ call.n = 2
    /\ call.v = 1
    /\ nodes[2].conns = <<1, 4>>
    /\ nodes[1].word = 3

\* C18: a composite chip whose n Not parts are wired in[i] to Not.in and
\* Not.out to out[i] has, after a single eval, the bitwise complement of in on
\* out, for every value of in.
Thm_C18 ==
    (op = "eval" /\ Len(host.sub_chips) = MaxParts) =>
        nodes[host.output_pins["out"]].word =
            Pow2(MaxParts) - 1 - nodes[host.input_pins["in"]].word

Wit_C18 ==
    /\ op = "eval"
    /\ Len(host.sub_chips) = MaxParts
    /\ nodes[host.input_pins["in"]].word = 1
    /\ nodes[host.output_pins["out"]].word = Pow2(MaxParts) - 2

\* the listeners registered on node n
ConnSet(ns, n) == {ns[n].conns[i] : i \in 1 .. Len(ns[n].conns)}

\* a host side that resolves and is one bit wide, as every pin of a Not is
GoodFrom(conn) ==
    \/ IsLiteral(conn.from)
    \/ /\ ChipGetPin(host, conn.from) # NotFound
       /\ nodes[ChipGetPin(host, conn.from)].width = 1

\* C20: when a part is wired, the part-side pin of each connection decides
\* the direction: to a part input the host pin drives the part pin, from a
\* part output the part pin drives the host pin, and a part-side name that
\* is neither makes wire() fail with pin-not-found.
Thm_C20 ==
    call.f = "wire" =>
        /\ \A i \in 1 .. Len(call.c) :
              (/\ call.c[i].to \notin {"in", "out"}
               /\ \A j \in 1 .. i - 1 : GoodFrom(call.c[j])) => op = "pin_not_found"
        /\ op = "wire" =>
              LET part == host.sub_chips[Len(host.sub_chips)]
              IN \A i \in 1 .. Len(call.c) :
                    LET hp == ChipGetPin(host, call.c[i].from)
                    IN IsLiteral(call.c[i].from) \/
                       IF call.c[i].to = "in"
                       THEN /\ part.input_pins["in"] \in ConnSet(nodes, hp)
                            /\ hp \notin ConnSet(nodes, part.input_pins["in"])
                       ELSE /\ hp \in ConnSet(nodes, part.output_pins["out"])
                            /\ part.output_pins["out"] \notin ConnSet(nodes, hp)

\* a part wired x -> Not.in, Not.out -> out, and a wiring refused for the
\* part-side name foo
Wit_C20 ==
    /\ call.f = "wire"
    /\ op = "wire"
    /\ call.c[1].from = "x"
    /\ call.c[1].to = "in"
    /\ call.c[2].from = "out"
    /\ call.c[2].to = "out"
    /\ host.sub_chips[Len(host.sub_chips)].input_pins["in"] \in ConnSet(nodes, 3)
    /\ 2 \in ConnSet(nodes, host.sub_chips[Len(host.sub_chips)].output_pins["out"])

\* the parts wired with the literal lit on their input in
LiteralParts(lit) ==
    {i \in 1 .. Len(host.sub_chips) :
        \E k \in 1 .. Len(host.sub_chips[i].conns) :
            /\ host.sub_chips[i].conns[k].to = "in"
            /\ host.sub_chips[i].conns[k].from = lit}

\* C19: a part input wired to the literal true (false) reads 1 (0) from the
\* moment wiring returns, and a Not part wired with in=true has out = 0 after
\* eval (in=false: out = 1).
Cex_C19 ==
    /\ \A i \in LiteralParts("true") :
          /\ nodes[host.sub_chips[i].input_pins["in"]].word = HIGH
          /\ op = "eval" => nodes[host.sub_chips[i].output_pins["out"]].word = LOW
    /\ \A i \in LiteralParts("false") :
          /\ nodes[host.sub_chips[i].input_pins["in"]].word = LOW
          /\ op = "eval" => nodes[host.sub_chips[i].output_pins["out"]].word = HIGH

\* C22: a chip built from HDL has each part wired through its connection
\* list to the part's own pins: with the single part Not(in=in, out=out) the
\* host in drives Not.in, Not.out drives the host out, and out = NOT in after
\* eval.
Cex_C22 ==
    (/\ Len(host.sub_chips) = 1
     /\ host.sub_chips[1].conns = <<HdlWire("in", "in"), HdlWire("out", "out")>>) =>
        /\ host.sub_chips[1].input_pins["in"] \in ConnSet(nodes, host.input_pins["in"])
        /\ host.output_pins["out"] \in ConnSet(nodes, host.sub_chips[1].output_pins["out"])
        /\ op = "eval" =>
              nodes[host.output_pins["out"]].word = 1 - nodes[host.input_pins["in"]].word

\* the width a side counts with: of its range where it has one (a range
\* without bounds counts one bit), of its pin otherwise
SideWidth(range, pin_width) ==
    IF range.kind = "bits" THEN range.end - range.start + 1
    ELSE IF range.kind = "full" THEN 1
    ELSE pin_width

\* the width of the host-side pin of a connection: a literal is one bit wide
FromPinWidth(conn) ==
    IF IsLiteral(conn.from) THEN 1 ELSE nodes[ChipGetPin(host, conn.from)].width

HostPins ==
    {host.input_pins[p] : p \in DOMAIN host.input_pins}
        \cup {host.output_pins[p] : p \in DOMAIN host.output_pins}
        \cup {host.internal_pins[p] : p \in DOMAIN host.internal_pins}

PartPins ==
    UNION {{host.sub_chips[i].input_pins["in"], host.sub_chips[i].output_pins["out"]} :
              i \in 1 .. Len(host.sub_chips)}

\* C23: after reset() on a composite chip every input, output and internal
\* pin of the chip reads zero, and every sub-chip has been reset: its pins
\* read zero as well.
Thm_C23 ==
    op = "reset" => \A n \in HostPins \cup PartPins : PinBusVoltage(nodes, n) = 0

\* a reset that cleared the output 1 of an evaluated part and a host pin it
\* drove
Wit_C23 ==
    /\ op = "reset"
    /\ Len(host.sub_chips) = MaxParts
    /\ Len(evalLog) = MaxParts
    /\ \E i \in 1 .. Len(host.sub_chips) :
          host.output_pins["out"] \in ConnSet(nodes, host.sub_chips[i].output_pins["out"])
    /\ \A n \in HostPins \cup PartPins : PinBusVoltage(nodes, n) = 0

\* the maps of the chip a get_pin call was made on, in the order input,
\* output, internal (a built-in part has no internal pin)
PinMaps(target) ==
    IF target = 0 THEN <<host.input_pins, host.output_pins, host.internal_pins>>
    ELSE <<host.sub_chips[1].input_pins, host.sub_chips[1].output_pins, << >> >>

\* C24: get_pin(name) on any chip returns the pin of the first of the maps
\* input, output, internal that has the name, and when none has it the call
\* fails with an error of the pin-not-found kind.
Cex_C24 ==
    call.f = "get_pin" =>
        /\ call.n \in {0, 1} =>
              LET maps == PinMaps(call.n)
                  name == call.c[1]
              IN \A k \in 1 .. 3 :
                    (/\ name \in DOMAIN maps[k]
                     /\ \A j \in 1 .. k - 1 : name \notin DOMAIN maps[j]) =>
                        /\ call.l = maps[k][name]
                        /\ op = "get_pin"
        /\ (\/ /\ call.n \in {0, 1}
                /\ \A k \in 1 .. 3 : call.c[1] \notin DOMAIN PinMaps(call.n)[k]
             \/ /\ call.n = 2
                /\ call.c[1] \notin PinNames(chip.kind)) => op = "pin_not_found"

\* C25: in a chain of DFFs, when a cycle has performed all its ticks before
\* all its tocks, the out of the first DFF is the in it had as the cycle
\* began and the out of every other DFF is the out its predecessor had as the
\* cycle began, whatever the order among the ticks and among the tocks.
Thm_C25 ==
    (/\ ran.tocked = 1 .. Len(host.sub_chips)
     /\ ran.ordered) =>
        \A i \in 1 .. Len(host.sub_chips) :
            host.sub_chips[i].pins["out"] =
                IF i = 1 THEN tk[1]["in"] ELSE tk[i - 1]["out"]

\* a finished cycle of ticks before tocks that moved a 1 from the first DFF
\* to the second and a 0 from the second to the third
Wit_C25 ==
    /\ ran.tocked = 1 .. Len(host.sub_chips)
    /\ ran.ordered
    /\ tk[1]["out"] = HIGH
    /\ tk[2]["out"] = LOW
    /\ host.sub_chips[2].pins["out"] = HIGH
    /\ host.sub_chips[3].pins["out"] = LOW

\* every listener list without its dead listeners
Purged(ns) ==
    [m \in DOMAIN ns |-> [ns[m] EXCEPT !.conns = SelectSeq(@, LAMBDA l : ns[l].live)]]

\* C26: a listener whose weak reference can no longer be upgraded is removed
\* from the listener list of its node by the next propagation from the node;
\* the write that caused the propagation succeeds (a bus reads the written
\* word) and reaches the remaining live listeners: every live node ends with
\* the word the same write gives it when the dead listener was never there.
Thm_C26 ==
    [][(/\ op' = "set_bus_voltage"
        /\ nodes[call'.n].type \in {"bus", "out_sub"}
        /\ \E i \in 1 .. Len(nodes[call'.n].conns) : ~nodes[nodes[call'.n].conns[i]].live) =>
          /\ nodes'[call'.n].conns = SelectSeq(nodes[call'.n].conns, LAMBDA l : nodes[l].live)
          /\ nodes[call'.n].type = "bus" =>
                PinBusVoltage(nodes', call'.n) = call'.v % Pow2(nodes[call'.n].width)
          /\ \A m \in DOMAIN nodes :
                nodes[m].live =>
                    PinBusVoltage(nodes', m) =
                        PinBusVoltage(PinSetBusVoltage(Purged(nodes), call'.n, call'.v,
                                                       {call'.n}), m)]_vars

\* a.set_bus_voltage(3) with the listener list <<c, b>> and c dropped: the
\* list is <<b>> afterwards and b has received 3
Wit_C26 ==
    /\ op = "set_bus_voltage"
    /\ call.n = 1
    /\ call.v = 3
    /\ call.c = <<3, 2>>
    /\ ~nodes[3].live
    /\ nodes[1].conns = <<2>>
    /\ nodes[1].word = 3
    /\ nodes[2].word = 3

RECURSIVE AndBits(_, _, _)
AndBits(x, y, i) ==
    IF i = 16 THEN 0
    ELSE Pow2(i) * ((x \div Pow2(i)) % 2) * ((y \div Pow2(i)) % 2)
         + AndBits(x, y, i + 1)

\* the word of the five-step rule of the ALU
FiveSteps(x, y, zx, nx, zy, ny, f, no) ==
    LET xz == IF zx = 1 THEN 0 ELSE x
        xn == IF nx = 1 THEN 65535 - xz ELSE xz
        yz == IF zy = 1 THEN 0 ELSE y
        yn == IF ny = 1 THEN 65535 - yz ELSE yz
        r == IF f = 1 THEN (xn + yn) % 65536 ELSE AndBits(xn, yn, 0)
    IN IF no = 1 THEN 65535 - r ELSE r

\* C28: after eval of the ALU, for the words on x and y and every value of
\* the control bits zx, nx, zy, ny, f, no, out is the word of the five-step
\* rule, zr is 1 exactly when out is 0 and ng is 1 exactly when out >= 0x8000.
Thm_C28 ==
    (chip.kind = "ALU" /\ op = "eval") =>
        /\ chip.pins["out"] =
               FiveSteps(chip.pins["x"], chip.pins["y"], chip.pins["zx"],
                         chip.pins["nx"], chip.pins["zy"], chip.pins["ny"],
                         chip.pins["f"], chip.pins["no"])
        /\ (chip.pins["zr"] = 1) <=> (chip.pins["out"] = 0)
        /\ (chip.pins["ng"] = 1) <=> (chip.pins["out"] >= 32768)
        /\ chip.pins["zr"] \in {0, 1}
        /\ chip.pins["ng"] \in {0, 1}

\* x - y computed as not(not x + y): 0 - 32767 is the negative word 0x8001
Wit_C28 ==
    /\ chip.kind = "ALU"
    /\ op = "eval"
    /\ chip.pins["x"] = 0
    /\ chip.pins["y"] = 32767
    /\ chip.pins["zx"] = 0 /\ chip.pins["nx"] = 1
    /\ chip.pins["zy"] = 0 /\ chip.pins["ny"] = 0
    /\ chip.pins["f"] = 1 /\ chip.pins["no"] = 1
    /\ chip.pins["out"] = 32769
    /\ chip.pins["zr"] = 0
    /\ chip.pins["ng"] = 1

\* ---------------------------------------------------------------- C29
\* C29: eval of a combinational built-in is idempotent when the inputs are
\* held constant: after an eval that started from the state an eval had left,
\* every input pin and every output pin has the value it had before.
Thm_C29 ==
    (op = "eval" /\ tk.op = "eval") => chip = tk.chip

Wit_C29 ==
    /\ op = "eval"
    /\ tk.op = "eval"
    /\ chip.kind = "DMux"
    /\ chip.pins["in"] = 1
    /\ chip.pins["sel"] = 1
    /\ chip.pins["b"] = 1
    /\ chip.pins["a"] = 0

\* ---------------------------------------------------------------- C30
\* C30: in the FullAdder the carries ca and cb of the two half adders are
\* never both 1, and after eval sum is (a+b+c) mod 2 and carry is 1 exactly
\* when a+b+c is at least 2.
Thm_C30 ==
    (chip.kind = "FullAdder" /\ op = "eval") =>
        LET a == chip.pins["a"]
            b == chip.pins["b"]
            c == chip.pins["c"]
            s_ca == half_adder(a, b)
            sum_cb == half_adder(s_ca[1], c)
        IN /\ ~(s_ca[2] = 1 /\ sum_cb[2] = 1)
           /\ chip.pins["sum"] = (a + b + c) % 2
           /\ (chip.pins["carry"] = 1) <=> (a + b + c >= 2)
           /\ chip.pins["carry"] \in {0, 1}

\* the three inputs are 1: the first half adder carries, the second does not
Wit_C30 ==
    /\ chip.kind = "FullAdder"
    /\ op = "eval"
    /\ chip.pins["a"] = 1 /\ chip.pins["b"] = 1 /\ chip.pins["c"] = 1
    /\ chip.pins["sum"] = 1
    /\ chip.pins["carry"] = 1
    /\ half_adder(1, 1)[2] = 1
    /\ half_adder(half_adder(1, 1)[1], 1)[2] = 0

\* ---------------------------------------------------------------- C31
\* the word load_program(program) leaves at an address of the new ROM
Preloaded(program, address) ==
    IF address < Len(program) THEN program[address + 1] ELSE 0

\* C31: ROM32K is combinational: after eval out is the pre-loaded word at
\* the address (address & 0x7FFF, here AddrBits bits), and no eval changes
\* the stored contents.
Thm_C31 ==
    [][(chip.kind = "ROM32K" /\ op' = "eval") =>
          /\ chip'.pins["out"] =
                 Preloaded(call.c, chip.pins["address"] % MemSize)
          /\ chip'.st.memory = chip.st.memory
          /\ \A a \in 0 .. (MemSize - 1) :
                 chip'.st.memory[a] = Preloaded(call.c, a)]_vars

\* a program longer than the memory was loaded and the last address is read
Wit_C31 ==
    /\ chip.kind = "ROM32K"
    /\ op = "eval"
    /\ call.f = "load_program"
    /\ Len(call.c) = MemSize + 1
    /\ call.c[MemSize] = TopWord
    /\ chip.pins["address"] = MemSize - 1
    /\ chip.pins["out"] = TopWord

\* ---------------------------------------------------------------- C32
\* C32: a memory read at an address at or beyond the size returns 0xFFFF,
\* and a memory write at such an address changes no stored word.
Thm_C32 ==
    [][/\ (op' = "get" /\ call'.n >= MemSize) =>
              (call'.v = 65535 /\ chip'.data = chip.data)
       /\ (op' = "set" /\ call'.n >= MemSize) =>
              (chip'.data = chip.data /\ DOMAIN chip'.data = 0 .. (MemSize - 1))]_vars

\* a write beyond the size on a memory that holds words, then a read at the
\* size
Wit_C32 ==
    /\ op = "get"
    /\ call.n = MemSize
    /\ call.v = 65535
    /\ tk.f = "set"
    /\ tk.n > MemSize
    /\ tk.v = 1
    /\ \E a \in DOMAIN chip.data : chip.data[a] = 65535
    /\ \A a \in DOMAIN chip.data : chip.data[a] # 1

\* ---------------------------------------------------------------- C33
\* the positions of the bars of a text, and its i-th bar
BarPos(t) == {j \in 1 .. Len(t) : t[j] = "|"}

Bar(t, i) == CHOOSE j \in BarPos(t) : Cardinality({k \in BarPos(t) : k < j}) = i - 1

\* the number written in a field: its characters other than spaces are
\* decimal digits (-1 when they are not, or when there is none)
RECURSIVE NumberOf(_, _, _)
NumberOf(digits, i, acc) ==
    IF i > Len(digits) THEN acc
    ELSE IF \E n \in 0 .. 9 : ToString(n) = digits[i]
    THEN NumberOf(digits, i + 1,
                  10 * acc + (CHOOSE n \in 0 .. 9 : ToString(n) = digits[i]))
    ELSE -1

FieldNumber(field) ==
    LET digits == SelectSeq(field, LAMBDA ch : ch # " ")
    IN IF digits = << >> THEN -1 ELSE NumberOf(digits, 1, 0)

\* t is one line for the output list: it starts with a bar, ends with a bar
\* and the only newline, and has one field per entry, in list order, that
\* shows the entry's value (the tick count, a pin's word)
IsLine(t, output_list, c, ck) ==
    /\ Len(t) >= 2
    /\ t[1] = "|"
    /\ t[Len(t)] = "\n"
    /\ t[Len(t) - 1] = "|"
    /\ \A j \in 1 .. (Len(t) - 1) : t[j] # "\n"
    /\ Cardinality(BarPos(t)) = Len(output_list) + 1
    /\ \A i \in 1 .. Len(output_list) :
          LET field == SubSeq(t, Bar(t, i) + 1, Bar(t, i + 1) - 1)
              id == output_list[i].id
          IN /\ id = "time" => FieldNumber(field) = ck.ticks
             /\ id \in PinNames(c.kind) => FieldNumber(field) = c.pins[id]
             /\ FieldNumber(field) >= 0

\* C33: every executed output instruction appends exactly one line to the
\* log, delimited by bars and ended by a newline, with one field per entry of
\* the output list in list order; set, eval, tick and tock append nothing.
Thm_C33 ==
    [][host.name = "ChipTest" =>
          IF op' = "output"
          THEN /\ SubSeq(host'.log_buffer, 1, Len(host.log_buffer)) = host.log_buffer
               /\ IsLine(SubSeq(host'.log_buffer, Len(host.log_buffer) + 1,
                                Len(host'.log_buffer)),
                         host.output_list, chip, clock)
          ELSE host'.log_buffer = host.log_buffer]_vars

\* two output instructions with a set in between: the second line follows
\* the first and shows the new word of in
Wit_C33 ==
    /\ host.name = "ChipTest"
    /\ op = "output"
    /\ Len(host.output_list) = 3
    /\ host.log_buffer =
          <<"|", "0", " ", "|", "0", "|", "1", " ", " ", " ", " ", " ", "|", "\n",
            "|", "0", " ", "|", "1", "|", "6", "5", "5", "3", "5", " ", "|", "\n">>

\* ---------------------------------------------------------------- C34
\* C34: for Bit, Register and PC an eval between a tick and the tock that
\* follows it does not change out: the state sampled at the tick becomes
\* visible on out only at the tock.
Cex_C34 ==
    [][(/\ chip.kind \in {"Bit", "Register", "PC"}
        /\ phase = HIGH
        /\ op' = "eval") => chip'.pins["out"] = chip.pins["out"]]_vars

\* ---------------------------------------------------------------- C35
\* C35: in one eval of a composite chip whose parts are listed in data-flow
\* order (the first Not drives the internal pin x from out or from the bit
\* range out[0], the second Not reads x), the later part reads the value the
\* earlier part produced in that same eval: its out is the complement of the
\* earlier part's out.
Cex_C35 ==
    (/\ op = "eval"
     /\ Len(host.sub_chips) >= 2
     /\ host.sub_chips[1].conns[2].from = "x"
     /\ host.sub_chips[2].conns[1].from = "x"
     /\ host.sub_chips[2].conns[1].to_range = NoRange) =>
        nodes[host.sub_chips[2].output_pins["out"]].word
            = 1 - nodes[host.sub_chips[1].output_pins["out"]].word

\* ---------------------------------------------------------------- C36
\* C36: wire() is all-or-nothing: when it returns an error, no listener edge
\* has been added, no sub-bus connection has been recorded, no pin value has
\* changed and the part has not been added to the chip.
Cex_C36 ==
    [][op' \notin {"wire", "set", "eval"} =>
          /\ host'.sub_chips = host.sub_chips
          /\ host'.subbus_connections = host.subbus_connections
          /\ \A n \in DOMAIN nodes :
                /\ n \in DOMAIN nodes'
                /\ nodes'[n].word = nodes[n].word
                /\ nodes'[n].conns = nodes[n].conns]_vars

\* ---------------------------------------------------------------- C37
\* C37: a part input wired to the literal true reads 1 after any sequence of
\* eval and reset calls on the host.
Cex_C37 ==
    \A i \in 1 .. Len(host.sub_chips) :
        (/\ host.sub_chips[i].conns[1].from = "true"
         /\ host.sub_chips[i].conns[1].to = "in") =>
            nodes[host.sub_chips[i].input_pins["in"]].word = HIGH

\* ---------------------------------------------------------------- C38
\* C38: a set instruction of the harness that names a pin the chip under
\* test does not have fails with a pin-not-found error, which run returns to
\* its caller; it is not skipped silently.
Cex_C38 ==
    (/\ ran # <<>>
     /\ ran[Len(ran)].i = "set"
     /\ ran[Len(ran)].pin = "nopin") => op = "pin_not_found"

\* ---------------------------------------------------------------- C39
\* C39: after N.set_word(v) on a bus N of width W every live listener that is
\* attached to N as a whole bus of width at least W holds v mod 2^W: no bit
\* of v above bit W-1 reaches a listener.
Cex_C39 ==
    (op = "set_bus_voltage" /\ nodes[call.n].type = "bus") =>
        \A i \in 1 .. Len(nodes[call.n].conns) :
            LET l == nodes[call.n].conns[i]
            IN (/\ l # call.n
                /\ nodes[l].live
                /\ nodes[l].type = "bus"
                /\ nodes[l].width >= nodes[call.n].width) =>
                   nodes[l].word = call.v % Pow2(nodes[call.n].width)

\* ---------------------------------------------------------------- C40
\* the nodes reached from the nodes of X through listener edges
RECURSIVE Downstream(_, _, _)
Downstream(ns, X, k) ==
    IF k = 0 THEN X
    ELSE Downstream(ns, X \cup UNION {{ns[x].conns[i] : i \in 1 .. Len(ns[x].conns)} :
                                        x \in X}, k - 1)

Below(ns, n) ==
    Downstream(ns, {ns[n].conns[i] : i \in 1 .. Len(ns[n].conns)}, Len(ns))

\* n lies on a cycle of listener edges
OnCycle(ns, n) == n \in Below(ns, n)

TypeOK ==
    /\ chip.kind \in ClockedKinds
    /\ \A p \in PinNames(chip.kind) : chip.pins[p] \in 0 .. (Pow2(PinWidth(chip.kind, p)) - 1)
    /\ phase \in {LOW, HIGH}
====
